---- MODULE Spec2Model ----
(***************************************************************************)
(* The canvas document engine of poentry (src/poentry/src/DigitalJournal.  *)
(* jsx) and the persistence endpoints it talks to (src/poentry/server.js). *)
(*                                                                         *)
(* One DigitalJournal component instance is modelled from its mount to its *)
(* teardown: the fabric canvas and its objects, the debounced save, the    *)
(* requests in flight, and the server's canvas row of the owner.           *)
(* Time is counted in ticks of 500 ms.                                     *)
(***************************************************************************)
EXTENDS Integers, Sequences, FiniteSets, TLC

VARIABLES
  mounted,        \* the component is mounted (effect at 1031 ran, cleanup at 1156 not yet)
  destroyed,      \* fabric finished disposing the canvas (its objects are gone)
  objects,        \* canvas.getObjects(): the elements in z-order, back to front
  nextId,         \* identity of the next object created (JS object identity)
  activeObject,   \* canvas.getActiveObject(): an id, or 0
  activeTextbox,  \* React state activeTextbox: an id, or 0
  lastSelRef,     \* lastSelRef.current: [textbox, start, end]
  contextMenu,    \* contextMenu.target: an id, or 0
  sessionAudios,  \* React state sessionAudios: sequence of [overlayId, url]
  saveStatus,     \* React state saveStatus
  saveTimerRef,   \* saveTimerRef.current: a timer handle, or 0
  timers,         \* the browser's pending timeouts: set of [id, kind, left]
  puts,           \* PUT /api/canvas requests sent, not yet handled by the server
  putReplies,     \* PUT responses on their way back to the client
  load,           \* loadCanvas: where it stands, and what it holds
  session,        \* the server still holds the owner's session (req.session.userId)
  store,          \* the owner's row of table canvases: a blob, or NoDoc
  audioStore,     \* ids of the owner's rows of table user_audio
  sinceDirty,     \* history: ticks since the most recent dirty event, capped at SaveDelay
  dirtyDoc,       \* history: the objects as they stood after the most recent dirty event
  burstPuts,      \* history: PUT requests issued since the most recent dirty event
  sent,           \* history: every PUT request issued, in order of issue
  handled,        \* history: the PUT requests the server stored, in order of arrival
  lastReply,      \* history: how the most recently completed PUT ended, and the status shown
  edits,          \* history: gestures so far that changed the document (bounds the run)
  userImages,     \* React state userImages: the ids of the sidebar's images, newest first
  ingests,        \* the files being ingested: one record per file chosen or pasted
  imageStore,     \* ids of the owner's rows of table user_images
  canvases,       \* table canvases: rows [user_id, canvas_json]
  user_images,    \* table user_images: rows [id, user_id]
  user_audio,     \* table user_audio: rows [id, user_id]
  lastRowid,      \* the AUTOINCREMENT sequence of each payload table
  response,       \* the response the server sent last, with the request it answers
  lastPut,        \* history: per account, the canvasJSON of its PUT stored last
  username,       \* UsernamePage: React state username, a sequence of characters
  status,         \* UsernamePage: React state status: [checking, available]
  debounceRef,    \* UsernamePage: the pending timeout of the check: [pending, trimmed]
  checks,         \* UsernamePage: every availability check issued, in order of issue
  statusOf        \* history: the trimmed username the status was last decided for

vars == <<mounted, destroyed, objects, nextId, activeObject, activeTextbox,
          lastSelRef, contextMenu, sessionAudios, saveStatus, saveTimerRef,
          timers, puts, putReplies, load, session, store,
          audioStore, sinceDirty, dirtyDoc, burstPuts, sent, handled, lastReply,
          edits, userImages, ingests, imageStore, canvases, user_images,
          user_audio, lastRowid, response, lastPut, username, status,
          debounceRef, checks, statusOf>>

selVars == <<activeObject, activeTextbox, lastSelRef, contextMenu>>
saveVars == <<saveStatus, saveTimerRef, timers, sinceDirty, dirtyDoc, burstPuts>>
netVars == <<puts, putReplies, sent, lastReply>>
srvVars == <<session, store, audioStore, handled>>
loadVars == <<load, sessionAudios>>
lifeVars == <<mounted, destroyed>>
ingestVars == <<userImages, ingests, imageStore>>
accountVars == <<canvases, user_images, user_audio, lastRowid, response, lastPut>>
usernameVars == <<username, status, debounceRef, checks, statusOf>>
\* what the canvas, its save and its load leave alone
otherVars == <<ingestVars, accountVars, usernameVars>>

(***************************************************************************)
(* Program constants.                                                      *)
(***************************************************************************)
GRID_SIZE == 30
PAGE_MARGIN == 40
\* setTimeout(..., 1500) of saveCanvas, in ticks of 500 ms
SaveDelay == 3
\* setTimeout(() => setSaveStatus(''), 2000), in ticks of 500 ms
StatusResetDelay == 4
\* width: 240 of addTextBox
DefaultWidth == 240
\* 'Type here...'.length
DefaultTextLen == 12
\* width: 300 of addAudioToCanvas
AudioWidth == 300
\* left: x ?? 100, top: y ?? 100 of addImageToCanvas
ImageDefaultPos == 100
\* Math.max(target.width * target.scaleX, 20)
MinWidth == 20
\* const maxW = 400: the width an added image is scaled down to
MaxImageWidth == 400
\* fontSize: 20 of addTextBox
DefaultFontSize == 20
\* the largest of FONT_SIZES
LargeFontSize == 64

(***************************************************************************)
(* Bounds of the model.                                                    *)
(***************************************************************************)
\* user gestures in one run
MaxEdits == 2
\* PUT requests issued in one run
MaxPuts == 2
\* elements of a document stored by an earlier visit
MaxStored == 3

\* the owner has no row in table canvases / the row holds the blob json
NoDoc == [row |-> FALSE, json |-> <<>>]

Doc(json) == [row |-> TRUE, json |-> json]

Max(a, b) == IF a >= b THEN a ELSE b

Min(a, b) == IF a <= b THEN a ELSE b

(***************************************************************************)
(* Elements.  A live fabric object is a record; id stands for the identity *)
(* of the JS object.  lockedWidth 0 stands for an undefined _lockedWidth.  *)
(* text is the number of characters; styles holds one style declaration   *)
(* per character ("" = property not set on the character; fontSize 0 = no  *)
(* size set on the character).  scaleX and scaleY are fractions.           *)
(***************************************************************************)
NoStyle == [fontWeight |-> "", fontStyle |-> "", fontSize |-> 0]

\* the scale factor 1
Unscaled == [num |-> 1, den |-> 1]

\* a snap that rounds down: Math.floor for Math.round
SnapDown(v) == (v \div GRID_SIZE) * GRID_SIZE

\* a snap to the next grid line beyond the position
SnapBeyond(v) == ((v \div GRID_SIZE) + 1) * GRID_SIZE

\* Math.round(v / GRID_SIZE) * GRID_SIZE; Math.round rounds halves up
Snap(v) == ((2 * v + GRID_SIZE) \div (2 * GRID_SIZE)) * GRID_SIZE

BaseObject(id, type, left, top, width) ==
  [id |-> id, type |-> type, left |-> left, top |-> top, width |-> width,
   lockedWidth |-> 0, patched |-> FALSE, isEditing |-> FALSE,
   selectionStart |-> 0, selectionEnd |-> 0,
   text |-> 0, styles |-> <<>>, textChanged |-> FALSE,
   fontWeight |-> "normal", fontStyle |-> "normal", fontSize |-> DefaultFontSize,
   textAlign |-> "left", scaleX |-> Unscaled, scaleY |-> Unscaled,
   isPageBg |-> FALSE, isAudio |-> FALSE, audioId |-> 0, overlayId |-> 0,
   selectable |-> TRUE, evented |-> TRUE]

\* the page background rect built by the canvas initialisation effect
PageRect ==
  [BaseObject(1, "rect", PAGE_MARGIN, PAGE_MARGIN, 1530)
     EXCEPT !.isPageBg = TRUE, !.selectable = FALSE, !.evented = FALSE]

\* the font size character i of tb is drawn in: its own, or the object's
CharFontSize(tb, i) ==
  IF tb.styles[i].fontSize # 0 THEN tb.styles[i].fontSize ELSE tb.fontSize

\* the measured width of one grapheme: 0.6 em
GraphemeWidth(size) == (size * 3) \div 5

\* fabric's own Textbox.initDimensions: with splitByGrapheme the box is never
\* narrower than its widest grapheme, and otherwise keeps its width
DynamicMinWidth(tb) ==
  IF tb.text = 0 THEN 0
  ELSE LET widths == {GraphemeWidth(CharFontSize(tb, i)) : i \in 1..tb.text}
       IN CHOOSE w \in widths : \A v \in widths : v <= w

OrigInitDimensions(tb) == [tb EXCEPT !.width = Max(tb.width, DynamicMinWidth(tb))]

\* an override that pins the width before fabric's layout and not after it
InitDimensionsNoRepin(tb) ==
  IF ~tb.patched THEN OrigInitDimensions(tb)
  ELSE IF tb.isEditing /\ tb.lockedWidth # 0
       THEN OrigInitDimensions([tb EXCEPT !.width = tb.lockedWidth])
       ELSE LET t == OrigInitDimensions(tb) IN [t EXCEPT !.lockedWidth = t.width]

\* the initDimensions a textbox has: the override once applyTextboxOverrides ran
InitDimensions(tb) ==
  IF ~tb.patched THEN OrigInitDimensions(tb)
  ELSE IF tb.isEditing /\ tb.lockedWidth # 0
       THEN [OrigInitDimensions([tb EXCEPT !.width = tb.lockedWidth])
               EXCEPT !.width = tb.lockedWidth]
       ELSE LET t == OrigInitDimensions(tb) IN [t EXCEPT !.lockedWidth = t.width]

\* tb._lockedWidth = tb._lockedWidth || tb.width, and the override installed
applyTextboxOverrides(tb) ==
  [tb EXCEPT !.lockedWidth = IF tb.lockedWidth # 0 THEN tb.lockedWidth ELSE tb.width,
             !.patched = TRUE]

\* new fabric.Textbox('Type here...', {...}) then applyTextboxOverrides
NewTextbox(id, left, top) ==
  applyTextboxOverrides(
    [BaseObject(id, "textbox", Snap(left), Snap(top), DefaultWidth)
       EXCEPT !.text = DefaultTextLen,
              !.styles = [i \in 1..DefaultTextLen |-> NoStyle]])

\* the rect of addAudioToCanvas; x, y = -1 stand for absent arguments
NewAudioRect(id, audioId, x, y) ==
  [BaseObject(id, "rect",
              IF x # -1 THEN x ELSE Snap(PAGE_MARGIN + 100),
              IF y # -1 THEN y ELSE Snap(PAGE_MARGIN + 30),
              AudioWidth)
     EXCEPT !.isAudio = TRUE, !.audioId = audioId, !.overlayId = id]

\* the FabricImage of addImageToCanvas; x, y = -1 stand for absent arguments
NewImage(id, x, y) ==
  BaseObject(id, "image",
             IF x # -1 THEN x ELSE ImageDefaultPos,
             IF y # -1 THEN y ELSE ImageDefaultPos,
             MaxImageWidth)

(***************************************************************************)
(* Serialization.  toJSON writes each object's own serialized properties   *)
(* (type as the class name, geometry, text, styles, font) and the extra    *)
(* properties saveCanvas lists; selectable, evented and the editing state  *)
(* are not among them, and a JS object has no identity in JSON.            *)
(***************************************************************************)
ClassName(type) ==
  CASE type = "textbox" -> "Textbox"
    [] type = "image" -> "Image"
    [] type = "rect" -> "Rect"

\* o.type.toLowerCase()
ToLowerCase(cls) ==
  CASE cls = "Textbox" -> "textbox"
    [] cls = "Image" -> "image"
    [] cls = "Rect" -> "rect"
    [] OTHER -> cls

ToObject(o) ==
  [type |-> ClassName(o.type), left |-> o.left, top |-> o.top, width |-> o.width,
   text |-> o.text, styles |-> o.styles,
   fontWeight |-> o.fontWeight, fontStyle |-> o.fontStyle, fontSize |-> o.fontSize,
   textAlign |-> o.textAlign, scaleX |-> o.scaleX, scaleY |-> o.scaleY,
   lockedWidth |-> o.lockedWidth, isPageBg |-> o.isPageBg, isAudio |-> o.isAudio,
   audioId |-> o.audioId, overlayId |-> o.overlayId,
   selectable |-> FALSE, evented |-> FALSE]

\* a filter that keeps the page background in the blob
KeepsPageBg(b) == TRUE

\* json.objects.filter(o => !o._isPageBg)
NotPageBg(b) == ~b.isPageBg

\* canvas.toJSON([...]) with the page background filtered out
SerializeCanvas(objs) ==
  SelectSeq([i \in 1..Len(objs) |-> ToObject(objs[i])], NotPageBg)

(***************************************************************************)
(* loadCanvas, the part between the response and canvas.loadFromJSON.      *)
(***************************************************************************)
\* o._isPageBg || (o.type && o.type.toLowerCase() === 'rect' && !o.selectable && !o.evented)
IsPageRect(b) ==
  b.isPageBg \/ (ToLowerCase(b.type) = "rect" /\ ~b.selectable /\ ~b.evented)

KeepOnLoad(b) == ~IsPageRect(b)

\* index of the first page rect of the blob, 0 if none
FirstPageRect(blob) ==
  IF \E i \in 1..Len(blob) : IsPageRect(blob[i])
  THEN CHOOSE i \in 1..Len(blob) :
         IsPageRect(blob[i]) /\ \A j \in 1..(i - 1) : ~IsPageRect(blob[j])
  ELSE 0

\* the filter and the coordinate migration
CleanLoaded(blob) ==
  LET kept == SelectSeq(blob, KeepOnLoad)
      p    == FirstPageRect(blob)
  IN IF p # 0 /\ blob[p].left # PAGE_MARGIN
     THEN LET dx == PAGE_MARGIN - blob[p].left
              dy == PAGE_MARGIN - blob[p].top
          IN [i \in 1..Len(kept) |->
                [kept[i] EXCEPT !.left = @ + dx, !.top = @ + dy]]
     ELSE kept

\* fabric's fromObject: a fresh object with the serialized properties, laid out
\* by its constructor
Enliven(b, id) ==
  OrigInitDimensions(
  [BaseObject(id, ToLowerCase(b.type), b.left, b.top, b.width)
     EXCEPT !.text = b.text, !.styles = b.styles,
            !.fontWeight = b.fontWeight, !.fontStyle = b.fontStyle,
            !.fontSize = b.fontSize, !.scaleX = b.scaleX, !.scaleY = b.scaleY,
            !.textAlign = b.textAlign, !.lockedWidth = b.lockedWidth,
            !.isPageBg = b.isPageBg, !.isAudio = b.isAudio,
            !.audioId = b.audioId, !.overlayId = b.overlayId])

\* the forEach over canvas.getObjects() after loadFromJSON
ReapplyOverrides(o) == IF o.type = "textbox" THEN applyTextboxOverrides(o) ELSE o

(***************************************************************************)
(* The canvas.                                                             *)
(***************************************************************************)
Ids(objs) == {objs[i].id : i \in 1..Len(objs)}

\* position of the object with identity id in objs, 0 if it is not there
Idx(objs, id) ==
  IF id \in Ids(objs) THEN CHOOSE i \in 1..Len(objs) : objs[i].id = id ELSE 0

Obj(id) == objects[Idx(objects, id)]

IsEditing(id) == id \in Ids(objects) /\ Obj(id).isEditing

\* fabric's exitEditing on every textbox being edited: the live selection collapses
ExitEditing(objs) ==
  [i \in 1..Len(objs) |->
     IF objs[i].isEditing
     THEN [objs[i] EXCEPT !.isEditing = FALSE, !.textChanged = FALSE,
                          !.selectionEnd = objs[i].selectionStart]
     ELSE objs[i]]

\* exitEditing fires object:modified when the text changed during the edit
ExitFiresModified(objs) ==
  \E i \in 1..Len(objs) : objs[i].isEditing /\ objs[i].textChanged

Remove(objs, id) == SelectSeq(objs, LAMBDA o : o.id # id)

(***************************************************************************)
(* saveCanvas: the debounce.                                               *)
(***************************************************************************)
\* a clearTimeout that cancels nothing: the timers of a burst accumulate
ClearTimeoutKeeps(ts, handle) == ts

\* clearTimeout(handle)
ClearTimeout(ts, handle) == {t \in ts : t.id # handle}

\* the handle setTimeout returns: one no live timer has and no reference holds
NewHandle(ts, held) ==
  CHOOSE n \in 1..(Cardinality(ts) + 2) : n # held /\ \A t \in ts : t.id # n

\* setTimeout(callback, delay) returning handle id
SetTimeout(ts, id, kind, delay) == ts \cup {[id |-> id, kind |-> kind, left |-> delay]}

\* saveCanvas(canvas), called by triggerSave on every dirty event; objs is the
\* document as the event leaves it
saveCanvas(objs) ==
  /\ LET pending == IF saveTimerRef # 0
                    THEN ClearTimeout(timers, saveTimerRef)
                    ELSE timers
         handle == NewHandle(timers, saveTimerRef)
     IN /\ timers' = SetTimeout(pending, handle, "save", SaveDelay)
        /\ saveTimerRef' = handle
  /\ saveStatus' = "Saving..."
  /\ sinceDirty' = 0
  /\ dirtyDoc' = objs
  /\ burstPuts' = 0

\* syncFmt(tb): setActiveTextbox
syncFmt(tb) == activeTextbox' = tb

\* a gesture that changes the document; MaxEdits bounds how many the model makes
Gesture == mounted /\ edits < MaxEdits /\ edits' = edits + 1

\* a gesture that only moves the selection, the caret or the context menu
Pointer == mounted /\ UNCHANGED edits


(***************************************************************************)
(* Gestures that fire a dirty event.                                       *)
(***************************************************************************)
\* the toolbar button: addTextBox called with the click event
AddTextBox ==
  /\ Gesture
  /\ LET text == NewTextbox(nextId, PAGE_MARGIN + 100, PAGE_MARGIN + 30)
         objs == Append(ExitEditing(objects), text)
     IN /\ objects' = objs
        /\ saveCanvas(objs)
        /\ activeObject' = text.id
        /\ syncFmt(text.id)
  /\ nextId' = nextId + 1
  /\ UNCHANGED <<lastSelRef, contextMenu>>
  /\ UNCHANGED <<netVars, srvVars, loadVars, lifeVars, otherVars>>

\* imgEl.onload of addImageToCanvas(dataUrl): no position given
AddImage ==
  /\ Gesture
  /\ LET img  == NewImage(nextId, -1, -1)
         objs == Append(ExitEditing(objects), img)
     IN /\ objects' = objs
        /\ saveCanvas(objs)
        /\ activeObject' = img.id
        /\ syncFmt(0)
  /\ nextId' = nextId + 1
  /\ UNCHANGED <<lastSelRef, contextMenu>>
  /\ UNCHANGED <<netVars, srvVars, loadVars, lifeVars, otherVars>>

\* handleDrop of a text item at the pointer position (x, y): addTextBox(x, y)
DropTextBox(x, y) ==
  /\ Gesture
  /\ LET text == NewTextbox(nextId, x, y)
         objs == Append(ExitEditing(objects), text)
     IN /\ objects' = objs
        /\ saveCanvas(objs)
        /\ activeObject' = text.id
        /\ syncFmt(text.id)
  /\ nextId' = nextId + 1
  /\ UNCHANGED <<lastSelRef, contextMenu>>
  /\ UNCHANGED <<netVars, srvVars, loadVars, lifeVars, otherVars>>

\* handleDrop of a sidebar image at the pointer position (x, y), the image
\* fetched and decoded: imgEl.onload of addImageToCanvas(imageData, x, y)
DropImage(x, y) ==
  /\ Gesture
  /\ LET img  == NewImage(nextId, x, y)
         objs == Append(ExitEditing(objects), img)
     IN /\ objects' = objs
        /\ saveCanvas(objs)
        /\ activeObject' = img.id
        /\ syncFmt(0)
  /\ nextId' = nextId + 1
  /\ UNCHANGED <<lastSelRef, contextMenu>>
  /\ UNCHANGED <<netVars, srvVars, loadVars, lifeVars, otherVars>>

\* the row id insertAudio gives the next payload of the owner
NewAudioId ==
  IF audioStore = {} THEN 1
  ELSE (CHOOSE m \in audioStore : \A n \in audioStore : n <= m) + 1

\* handleUploadAudio, the upload answered: app.post('/api/audio') stored the
\* payload, then addAudioToCanvas(data.id, dataUrl) with no position
AddAudio ==
  /\ Gesture
  /\ session
  /\ LET rect == NewAudioRect(nextId, NewAudioId, -1, -1)
         objs == Append(ExitEditing(objects), rect)
     IN /\ objects' = objs
        /\ saveCanvas(objs)
        /\ activeObject' = rect.id
        /\ syncFmt(0)
        /\ sessionAudios' = Append(sessionAudios,
                                   [overlayId |-> rect.overlayId, url |-> NewAudioId])
  /\ audioStore' = audioStore \cup {NewAudioId}
  /\ nextId' = nextId + 1
  /\ UNCHANGED <<lastSelRef, contextMenu>>
  /\ UNCHANGED <<netVars, session, store, handled, load, lifeVars, otherVars>>

\* the 'object:moving' handler on target, which fabric has put where the
\* pointer dragged it
ObjectMoving(target) ==
  IF target.isPageBg THEN target
  ELSE [target EXCEPT !.left = Snap(target.left), !.top = Snap(target.top)]

\* fabric fires 'object:moving' on the object being dragged, having put it
\* where the pointer is
MovingEvent(id) ==
  /\ Pointer
  /\ id \in Ids(objects) /\ id = activeObject /\ Obj(id).evented
  /\ objects' = [objects EXCEPT ![Idx(objects, id)] = ObjectMoving(@)]
  /\ UNCHANGED <<nextId, selVars>>
  /\ UNCHANGED <<saveVars, netVars, srvVars, loadVars, lifeVars, otherVars>>

\* a drag of an object to the pointer position (x, y): object:moving snaps it
\* on every move, the drop fires object:modified
MoveObject(id, x, y) ==
  /\ Gesture
  /\ id \in Ids(objects) /\ Obj(id).evented /\ ~Obj(id).isEditing
  /\ LET objs == [ExitEditing(objects) EXCEPT
                    ![Idx(objects, id)] = ObjectMoving([@ EXCEPT !.left = x, !.top = y])]
     IN /\ objects' = objs
        /\ saveCanvas(objs)
  /\ activeObject' = id
  /\ syncFmt(IF Obj(id).type = "textbox" THEN id ELSE 0)
  /\ UNCHANGED <<nextId, lastSelRef, contextMenu>>
  /\ UNCHANGED <<netVars, srvVars, loadVars, lifeVars, otherVars>>

\* fabric's transform while a side control of tb is dragged to the width w:
\* the scale factor follows the pointer, and the top may come out displaced
Dragged(tb, w, drift) ==
  [tb EXCEPT !.scaleX = [num |-> w, den |-> tb.width], !.top = tb.top + drift]

\* a handler that leaves the top where the transform put it
ObjectScalingUnanchored(target, anchorTop) ==
  IF target.type # "textbox" THEN target
  ELSE LET newWidth == Max((target.width * target.scaleX.num) \div target.scaleX.den,
                           MinWidth)
       IN InitDimensions([target EXCEPT !.lockedWidth = newWidth, !.width = newWidth,
                                        !.scaleX = Unscaled, !.scaleY = Unscaled])

\* the 'object:scaling' handler on target; anchorTop is the top 'before:transform'
\* recorded
ObjectScaling(target, anchorTop) ==
  IF target.type # "textbox" THEN target
  ELSE LET newWidth == Max((target.width * target.scaleX.num) \div target.scaleX.den,
                           MinWidth)
           baked    == [target EXCEPT !.lockedWidth = newWidth, !.width = newWidth,
                                      !.scaleX = Unscaled, !.scaleY = Unscaled]
       IN [InitDimensions(baked) EXCEPT !.top = anchorTop]

\* a resize of a textbox by a side control to the width w: before:transform,
\* object:scaling, object:scaled, object:modified
ResizeTextbox(id, w, drift) ==
  /\ Gesture
  /\ id \in Ids(objects) /\ Obj(id).type = "textbox" /\ ~Obj(id).isEditing
  /\ LET anchorTop == Obj(id).top
         objs      == [ExitEditing(objects) EXCEPT
                         ![Idx(objects, id)] =
                           ObjectScaling(Dragged(Obj(id), w, drift), anchorTop)]
     IN /\ objects' = objs
        /\ saveCanvas(objs)
  /\ activeObject' = id
  /\ syncFmt(id)
  /\ UNCHANGED <<nextId, lastSelRef, contextMenu>>
  /\ UNCHANGED <<netVars, srvVars, loadVars, lifeVars, otherVars>>

\* a key typed into the textbox being edited: the selection is replaced by one
\* character, which takes the style of the character before it; text:changed
TypeChar ==
  /\ Gesture
  /\ IsEditing(activeObject)
  /\ LET tb    == Obj(activeObject)
         s     == tb.selectionStart
         e     == tb.selectionEnd
         st    == IF s > 0 THEN tb.styles[s] ELSE NoStyle
         typed == [tb EXCEPT
                     !.text = tb.text - (e - s) + 1,
                     !.styles = SubSeq(tb.styles, 1, s) \o <<st>>
                                  \o SubSeq(tb.styles, e + 1, tb.text),
                     !.selectionStart = s + 1, !.selectionEnd = s + 1,
                     !.textChanged = TRUE]
         objs  == [objects EXCEPT ![Idx(objects, tb.id)] = InitDimensions(typed)]
     IN /\ objects' = objs
        /\ saveCanvas(objs)
        /\ syncFmt(tb.id)
  /\ UNCHANGED <<nextId, activeObject, lastSelRef, contextMenu>>
  /\ UNCHANGED <<netVars, srvVars, loadVars, lifeVars, otherVars>>

\* a handler that removes the active object whatever its editing state
handleKeyDownUnguarded(objs, active) ==
  IF active \notin Ids(objs) THEN objs ELSE Remove(objs, active)

\* handleKeyDown on Delete or Backspace: the objects of the canvas once the
\* handler has returned; active is the active object, 0 if there is none
handleKeyDown(objs, active) ==
  IF active \in Ids(objs) /\ objs[Idx(objs, active)].isEditing THEN objs
  ELSE IF active \notin Ids(objs) THEN objs
  ELSE Remove(objs, active)

\* the Delete or Backspace key: handleKeyDown; a removal fires object:removed,
\* and discardActiveObject fires selection:cleared
RemoveActive ==
  /\ mounted
  /\ LET objs == handleKeyDown(objects, activeObject)
     IN IF objs = objects
        THEN UNCHANGED vars
        ELSE /\ Gesture
             /\ objects' = objs
             /\ saveCanvas(objs)
             /\ activeObject' = 0
             /\ syncFmt(0)
             /\ UNCHANGED <<nextId, lastSelRef, contextMenu>>
             /\ UNCHANGED <<netVars, srvVars, loadVars, lifeVars, otherVars>>

(***************************************************************************)
(* Selection and editing.                                                  *)
(***************************************************************************)
\* selection ranges a user makes in a textbox: a caret, and two ranges
Ranges == {<<0, 0>>, <<2, 5>>}

\* style deltas of the toolbar buttons (a property as in NoStyle = not named by
\* the delta)
StyleDeltas == {[fontWeight |-> "bold", fontStyle |-> "", fontSize |-> 0],
                [fontWeight |-> "", fontStyle |-> "italic", fontSize |-> 0]}

Aligns == {"center"}

\* the events an ending edit fires: object:modified (a dirty event) if the text changed
ExitSaves(objs) ==
  IF ExitFiresModified(objects) THEN saveCanvas(objs) ELSE UNCHANGED saveVars

\* a click on an object: it becomes the active object (selection:created/updated)
Select(id) ==
  /\ Pointer
  /\ id \in Ids(objects) /\ Obj(id).evented /\ id # activeObject
  /\ objects' = ExitEditing(objects)
  /\ ExitSaves(objects')
  /\ activeObject' = id
  /\ syncFmt(IF Obj(id).type = "textbox" THEN id ELSE 0)
  /\ UNCHANGED <<nextId, lastSelRef, contextMenu>>
  /\ UNCHANGED <<netVars, srvVars, loadVars, lifeVars, otherVars>>

\* a click on the empty canvas (selection:cleared)
Deselect ==
  /\ Pointer
  /\ activeObject # 0
  /\ objects' = ExitEditing(objects)
  /\ ExitSaves(objects')
  /\ activeObject' = 0
  /\ syncFmt(0)
  /\ UNCHANGED <<nextId, lastSelRef, contextMenu>>
  /\ UNCHANGED <<netVars, srvVars, loadVars, lifeVars, otherVars>>

\* a double click into a textbox: enterEditing, then the pointer sets the
\* selection; each fires text:selection:changed, which caches it in lastSelRef
EnterEditing(id, r) ==
  /\ Pointer
  /\ id \in Ids(objects) /\ Obj(id).type = "textbox" /\ ~Obj(id).isEditing
  /\ r[2] <= Obj(id).text
  /\ objects' = [ExitEditing(objects) EXCEPT
                   ![Idx(objects, id)].isEditing = TRUE,
                   ![Idx(objects, id)].textChanged = FALSE,
                   ![Idx(objects, id)].selectionStart = r[1],
                   ![Idx(objects, id)].selectionEnd = r[2]]
  /\ ExitSaves(objects')
  /\ activeObject' = id
  /\ lastSelRef' = [textbox |-> id, start |-> r[1], end |-> r[2]]
  /\ syncFmt(id)
  /\ UNCHANGED <<nextId, contextMenu>>
  /\ UNCHANGED <<netVars, srvVars, loadVars, lifeVars, otherVars>>

\* the selection changes in the textbox being edited (text:selection:changed)
SelectRange(r) ==
  /\ Pointer
  /\ IsEditing(activeObject)
  /\ r[2] <= Obj(activeObject).text
  /\ <<Obj(activeObject).selectionStart, Obj(activeObject).selectionEnd>> # r
  /\ objects' = [objects EXCEPT
                   ![Idx(objects, activeObject)].selectionStart = r[1],
                   ![Idx(objects, activeObject)].selectionEnd = r[2]]
  /\ lastSelRef' = [textbox |-> activeObject, start |-> r[1], end |-> r[2]]
  /\ syncFmt(activeObject)
  /\ UNCHANGED <<nextId, activeObject, contextMenu>>
  /\ UNCHANGED <<saveVars, netVars, srvVars, loadVars, lifeVars, otherVars>>

(***************************************************************************)
(* Formatting: applyStyle and setAlign.                                    *)
(***************************************************************************)
\* a merge that keeps nothing of the existing declaration
MergeStyleReplace(existing, styles) == styles

\* { ...existing, ...styles }
MergeStyle(existing, styles) ==
  [k \in DOMAIN existing |-> IF styles[k] # NoStyle[k] THEN styles[k] ELSE existing[k]]

\* the textbox applyStyle resolves as its target
StyleTarget ==
  IF activeTextbox # 0 /\ IsEditing(activeTextbox) THEN activeTextbox
  ELSE IF lastSelRef.textbox # 0 THEN lastSelRef.textbox ELSE activeTextbox

\* the range applyStyle resolves for target tb
StyleRange(tb) ==
  IF tb.isEditing THEN <<tb.selectionStart, tb.selectionEnd>>
  ELSE IF tb.id = lastSelRef.textbox THEN <<lastSelRef.start, lastSelRef.end>>
  ELSE <<0, 0>>

\* the mutation of applyStyle on tb, up to and including tb.initDimensions()
StyledTextbox(tb, styles) ==
  LET r == StyleRange(tb)
      styled ==
        IF r[1] # r[2]
        THEN [tb EXCEPT
                !.isEditing = TRUE,
                !.selectionStart = r[1], !.selectionEnd = r[2],
                !.styles = [i \in 1..tb.text |->
                              IF r[1] < i /\ i <= r[2]
                              THEN MergeStyle(tb.styles[i], styles)
                              ELSE tb.styles[i]]]
        ELSE [tb EXCEPT
                !.fontWeight = IF styles.fontWeight # "" THEN styles.fontWeight ELSE @,
                !.fontStyle = IF styles.fontStyle # "" THEN styles.fontStyle ELSE @,
                !.fontSize = IF styles.fontSize # 0 THEN styles.fontSize ELSE @]
  IN InitDimensions(styled)

\* a toolbar button calling applyStyle(styles); the toolbar shows while
\* activeTextbox is set.  A target no longer on the canvas is mutated off-canvas.
ApplyStyle(styles) ==
  /\ Gesture
  /\ activeTextbox # 0
  /\ LET id == StyleTarget
     IN IF id \in Ids(objects)
        THEN LET tb      == Obj(id)
                 r       == StyleRange(tb)
                 enters  == r[1] # r[2] /\ ~tb.isEditing
                 others  == IF enters THEN ExitEditing(objects) ELSE objects
             IN /\ objects' = [others EXCEPT ![Idx(objects, id)] = StyledTextbox(tb, styles)]
                /\ lastSelRef' = IF enters
                                 THEN [textbox |-> id, start |-> tb.selectionStart,
                                       end |-> tb.selectionEnd]
                                 ELSE lastSelRef
                /\ syncFmt(id)
        ELSE /\ syncFmt(id)
             /\ UNCHANGED <<objects, lastSelRef>>
  /\ UNCHANGED <<nextId, activeObject, contextMenu>>
  /\ UNCHANGED <<saveVars, netVars, srvVars, loadVars, lifeVars, otherVars>>

\* a choice in a <select> of the toolbar while a textbox is being edited.  The
\* toolbar lets the mousedown on a <select> through, so the focus leaves the
\* canvas: the textbox leaves editing and its live selection collapses; with
\* cleared, the canvas discards its active object too.  Then onChange calls
\* applyStyle(styles), which finds no textbox editing.
ToolbarSelect(styles, cleared) ==
  /\ Gesture
  /\ activeTextbox # 0 /\ IsEditing(activeTextbox)
  /\ LET blurred == ExitEditing(objects)
         id      == IF lastSelRef.textbox # 0 THEN lastSelRef.textbox ELSE activeTextbox
     IN /\ IF id \in Ids(blurred)
           THEN LET tb     == blurred[Idx(blurred, id)]
                    r      == StyleRange(tb)
                    enters == r[1] # r[2]
                IN /\ objects' = [blurred EXCEPT
                                    ![Idx(blurred, id)] = StyledTextbox(tb, styles)]
                   /\ lastSelRef' = IF enters
                                    THEN [textbox |-> id, start |-> tb.selectionStart,
                                          end |-> tb.selectionEnd]
                                    ELSE lastSelRef
           ELSE /\ objects' = blurred
                /\ UNCHANGED lastSelRef
        /\ syncFmt(id)
        /\ ExitSaves(blurred)
  /\ activeObject' = IF cleared THEN 0 ELSE activeObject
  /\ UNCHANGED <<nextId, contextMenu>>
  /\ UNCHANGED <<netVars, srvVars, loadVars, lifeVars, otherVars>>

\* an alignment button calling setAlign(align)
SetAlign(align) ==
  /\ Gesture
  /\ activeTextbox # 0
  /\ IF activeTextbox \in Ids(objects)
     THEN objects' = [objects EXCEPT ![Idx(objects, activeTextbox)] =
                        InitDimensions([Obj(activeTextbox) EXCEPT !.textAlign = align])]
     ELSE UNCHANGED objects
  /\ UNCHANGED <<nextId, selVars>>
  /\ UNCHANGED <<saveVars, netVars, srvVars, loadVars, lifeVars, otherVars>>

(***************************************************************************)
(* The context menu: z-order.                                              *)
(***************************************************************************)
\* mouse:down with the right button on an object
RightClick(id) ==
  /\ Pointer
  /\ id \in Ids(objects) /\ Obj(id).evented
  /\ objects' = IF id = activeObject THEN objects ELSE ExitEditing(objects)
  /\ IF id = activeObject THEN UNCHANGED saveVars ELSE ExitSaves(objects')
  /\ activeObject' = id
  /\ IF id = activeObject THEN UNCHANGED activeTextbox
     ELSE syncFmt(IF Obj(id).type = "textbox" THEN id ELSE 0)
  /\ contextMenu' = id
  /\ UNCHANGED <<nextId, lastSelRef>>
  /\ UNCHANGED <<netVars, srvVars, loadVars, lifeVars, otherVars>>

Swap(objs, i, j) == [objs EXCEPT ![i] = objs[j], ![j] = objs[i]]

\* fabric's bringObjectToFront, sendObjectToBack, bringObjectForward, sendObjectBackwards
Reorder(objs, id, action) ==
  LET i == Idx(objs, id)
  IN CASE i = 0 -> objs
       [] action = "front" -> Append(Remove(objs, id), objs[i])
       [] action = "back" -> <<objs[i]>> \o Remove(objs, id)
       [] action = "forward" -> IF i < Len(objs) THEN Swap(objs, i, i + 1) ELSE objs
       [] action = "backward" -> IF i > 1 THEN Swap(objs, i, i - 1) ELSE objs

ZActions == {"front", "back", "forward", "backward"}

\* handleZOrder(action) from the context menu
ZOrder(action) ==
  /\ Gesture
  /\ contextMenu # 0
  /\ objects' = Reorder(objects, contextMenu, action)
  /\ contextMenu' = 0
  /\ UNCHANGED <<nextId, activeObject, activeTextbox, lastSelRef>>
  /\ UNCHANGED <<saveVars, netVars, srvVars, loadVars, lifeVars, otherVars>>

(***************************************************************************)
(* Time and the timers.                                                    *)
(***************************************************************************)
\* 500 ms pass.  A timeout never fires early; it may fire late.  A canvas
\* being disposed is destroyed at the next frame, before a tick has passed.
Tick ==
  /\ mounted \/ destroyed
  /\ timers # {} \/ sinceDirty < SaveDelay
  /\ timers' = {[t EXCEPT !.left = Max(t.left - 1, 0)] : t \in timers}
  /\ sinceDirty' = Min(sinceDirty + 1, SaveDelay)
  /\ UNCHANGED <<objects, nextId, selVars, saveStatus, saveTimerRef, dirtyDoc, burstPuts, edits>>
  /\ UNCHANGED <<netVars, srvVars, loadVars, lifeVars, otherVars>>

\* React ignores a state update of an unmounted component
setSaveStatus(shown) == saveStatus' = IF mounted THEN shown ELSE saveStatus

\* the callback of saveCanvas's timeout, up to the await: serialize and send
SaveTimerFire ==
  \E t \in timers :
    /\ t.kind = "save" /\ t.left = 0
    /\ Len(sent) < MaxPuts
    /\ timers' = timers \ {t}
    /\ LET json == SerializeCanvas(objects)
       IN /\ puts' = puts \cup {[seq |-> Len(sent) + 1, blob |-> json]}
          /\ sent' = Append(sent, [blob |-> json, age |-> sinceDirty,
                                   mounted |-> mounted,
                                   loading |-> load.pc \in {"fetching", "replied"}])
    /\ burstPuts' = burstPuts + 1
    /\ UNCHANGED <<objects, nextId, selVars, saveStatus, saveTimerRef, sinceDirty, dirtyDoc, edits>>
    /\ UNCHANGED <<putReplies, lastReply, srvVars, loadVars, lifeVars, otherVars>>

\* the callback after the await: fetch resolved, whatever the status of the response
SaveResolved ==
  \E r \in putReplies :
    /\ putReplies' = putReplies \ {r}
    /\ setSaveStatus("Saved")
    /\ timers' = SetTimeout(timers, NewHandle(timers, saveTimerRef), "reset",
                            StatusResetDelay)
    /\ lastReply' = [seq |-> r.seq, ok |-> r.ok, thrown |-> FALSE, shown |-> "Saved"]
    /\ UNCHANGED <<objects, nextId, selVars, saveTimerRef, sinceDirty, dirtyDoc,
                   burstPuts, edits>>
    /\ UNCHANGED <<puts, sent, srvVars, loadVars, lifeVars, otherVars>>

\* the catch: fetch threw, the request or its response was lost on the network
SaveRejected ==
  /\ \/ \E r \in puts :
          /\ puts' = puts \ {r}
          /\ lastReply' = [seq |-> r.seq, ok |-> FALSE, thrown |-> TRUE,
                           shown |-> "Save failed"]
          /\ UNCHANGED putReplies
     \/ \E r \in putReplies :
          /\ putReplies' = putReplies \ {r}
          /\ lastReply' = [seq |-> r.seq, ok |-> FALSE, thrown |-> TRUE,
                           shown |-> "Save failed"]
          /\ UNCHANGED puts
  /\ setSaveStatus("Save failed")
  /\ UNCHANGED <<objects, nextId, selVars, saveTimerRef, timers, sinceDirty, dirtyDoc, burstPuts, edits>>
  /\ UNCHANGED <<sent, srvVars, loadVars, lifeVars, otherVars>>

\* setTimeout(() => setSaveStatus(''), 2000) fires
StatusResetFire ==
  \E t \in timers :
    /\ t.kind = "reset" /\ t.left = 0
    /\ timers' = timers \ {t}
    /\ setSaveStatus("")
    /\ UNCHANGED <<objects, nextId, selVars, saveTimerRef, sinceDirty,
                   dirtyDoc, burstPuts, edits>>
    /\ UNCHANGED <<netVars, srvVars, loadVars, lifeVars, otherVars>>

(***************************************************************************)
(* The server.                                                             *)
(***************************************************************************)
\* an insert that leaves an existing row alone: the first write wins
upsertCanvasIgnore(row, json) == IF row.row THEN row ELSE Doc(json)

\* stmts.upsertCanvas: INSERT ... ON CONFLICT(user_id) DO UPDATE SET canvas_json
upsertCanvas(row, json) == Doc(json)

\* app.put('/api/canvas'): requireAuth answers 401 without a session; the body
\* always carries a canvasJSON object, so the 400 is never answered
ServerPutCanvas ==
  \E r \in puts :
    /\ puts' = puts \ {r}
    /\ putReplies' = putReplies \cup {[seq |-> r.seq, ok |-> session]}
    /\ store' = IF session THEN upsertCanvas(store, r.blob) ELSE store
    /\ handled' = IF session THEN Append(handled, r.seq) ELSE handled
    /\ UNCHANGED <<objects, nextId, selVars, saveVars, edits>>
    /\ UNCHANGED <<sent, lastReply, session, audioStore, loadVars, lifeVars, otherVars>>

\* app.post('/api/auth/logout'): the session is destroyed (handleLogout of this
\* page, or of another tab of the same browser)
ServerLogout ==
  /\ session
  /\ session' = FALSE
  /\ UNCHANGED <<objects, nextId, selVars, saveVars, edits>>
  /\ UNCHANGED <<netVars, store, audioStore, handled, loadVars, lifeVars, otherVars>>

(***************************************************************************)
(* Teardown.                                                               *)
(***************************************************************************)
\* the cleanup of the canvas effect, () => canvas.dispose(): on navigating away,
\* also navigate('/') of handleLogout.  saveTimerRef's timeout is not cleared.
Unmount ==
  /\ mounted
  /\ mounted' = FALSE
  /\ activeObject' = 0 /\ activeTextbox' = 0 /\ contextMenu' = 0
  /\ lastSelRef' = [textbox |-> 0, start |-> 0, end |-> 0]
  /\ saveStatus' = ""
  /\ UNCHANGED <<destroyed, objects, nextId, saveTimerRef, timers, sinceDirty,
                 dirtyDoc, burstPuts, edits>>
  /\ UNCHANGED <<netVars, srvVars, loadVars, otherVars>>

\* fabric completes dispose(): at once, or after the frame being rendered
CanvasDestroy ==
  /\ ~mounted /\ ~destroyed
  /\ destroyed' = TRUE
  /\ objects' = <<>>
  /\ UNCHANGED <<mounted, nextId, selVars, saveVars, edits>>
  /\ UNCHANGED <<netVars, srvVars, loadVars, otherVars>>

(***************************************************************************)
(* loadCanvas.                                                             *)
(***************************************************************************)
LoadIdle == [pc |-> "done", ok |-> FALSE, doc |-> NoDoc, audios |-> <<>>]

\* app.get('/api/canvas'): 401 without a session, else the owner's row or null
ServerGetCanvas ==
  /\ load.pc = "fetching"
  /\ load' = [load EXCEPT !.pc = "replied", !.ok = session,
                          !.doc = IF session THEN store ELSE NoDoc]
  /\ UNCHANGED <<objects, nextId, selVars, saveVars, edits, sessionAudios>>
  /\ UNCHANGED <<netVars, srvVars, lifeVars, otherVars>>

\* the catch of loadCanvas: the request or its response was lost
LoadFailed ==
  /\ load.pc \in {"fetching", "replied"}
  /\ load' = LoadIdle
  /\ UNCHANGED <<objects, nextId, selVars, saveVars, edits, sessionAudios>>
  /\ UNCHANGED <<netVars, srvVars, lifeVars, otherVars>>

\* what loadFromJSON leaves on the canvas for the cleaned blob, overrides re-applied
Loaded(cleaned, firstId) ==
  [i \in 1..Len(cleaned) |-> ReapplyOverrides(Enliven(cleaned[i], firstId + i - 1))]

\* loadedAudios: obj._isAudio && obj.audioId
LoadedAudios(objs) == SelectSeq(objs, LAMBDA o : o.type # "textbox" /\ o.isAudio /\ o.audioId # 0)

\* loadCanvas from the response on: the early returns, the filter and the
\* migration, loadFromJSON (clear fires object:removed, add fires object:added),
\* the overrides, the audio fetches started, the page rect put back
LoadResponse ==
  /\ load.pc = "replied" /\ mounted
  /\ IF ~load.ok \/ ~load.doc.row \/ Len(load.doc.json) = 0
     THEN /\ load' = LoadIdle
          /\ UNCHANGED <<objects, nextId, selVars, saveVars>>
     ELSE LET loaded == Loaded(CleanLoaded(load.doc.json), nextId)
              audios == LoadedAudios(loaded)
          IN /\ objects' = <<PageRect>> \o loaded
             /\ nextId' = nextId + Len(loaded)
             /\ saveCanvas(objects')
             /\ activeObject' = 0
             /\ activeTextbox' = IF activeObject # 0 THEN 0 ELSE activeTextbox
             /\ load' = [load EXCEPT
                           !.pc = IF Len(audios) > 0 THEN "audio" ELSE "done",
                           !.doc = NoDoc,
                           !.audios = [i \in 1..Len(audios) |->
                                         [overlayId |-> audios[i].overlayId,
                                          audioId |-> audios[i].audioId,
                                          result |-> "pending"]]]
             /\ UNCHANGED <<lastSelRef, contextMenu>>
  /\ UNCHANGED <<edits, sessionAudios>>
  /\ UNCHANGED <<netVars, srvVars, lifeVars, otherVars>>

\* app.get('/api/audio/:id') and the fetch of it resolving: the row of the owner,
\* or 401 / 404, for which the map callback returns null
ServerGetAudio(k) ==
  /\ load.pc = "audio" /\ k \in 1..Len(load.audios)
  /\ load.audios[k].result = "pending"
  /\ load' = [load EXCEPT !.audios[k].result =
                IF session /\ load.audios[k].audioId \in audioStore THEN "url" ELSE "null"]
  /\ UNCHANGED <<objects, nextId, selVars, saveVars, edits, sessionAudios>>
  /\ UNCHANGED <<netVars, srvVars, lifeVars, otherVars>>

\* the catch of the map callback: the fetch threw
AudioFetchFailed(k) ==
  /\ load.pc = "audio" /\ k \in 1..Len(load.audios)
  /\ load.audios[k].result = "pending"
  /\ load' = [load EXCEPT !.audios[k].result = "null"]
  /\ UNCHANGED <<objects, nextId, selVars, saveVars, edits, sessionAudios>>
  /\ UNCHANGED <<netVars, srvVars, lifeVars, otherVars>>

\* Promise.all(...).then: setSessionAudios(prev => [...prev, ...valid])
LoadAudiosDone ==
  /\ load.pc = "audio"
  /\ \A k \in 1..Len(load.audios) : load.audios[k].result # "pending"
  /\ LET valid == SelectSeq(load.audios, LAMBDA a : a.result # "null")
     IN sessionAudios' =
          IF mounted
          THEN sessionAudios \o [i \in 1..Len(valid) |->
                                   [overlayId |-> valid[i].overlayId, url |-> valid[i].audioId]]
          ELSE sessionAudios
  /\ load' = [load EXCEPT !.pc = "done"]
  /\ UNCHANGED <<objects, nextId, selVars, saveVars, edits>>
  /\ UNCHANGED <<netVars, srvVars, lifeVars, otherVars>>

(***************************************************************************)
(* The parts a canvas page at work leaves alone: the files being ingested,  *)
(* the tables of the server as every account sees them, the username page. *)
(***************************************************************************)
\* the accounts with a row in table users
Accounts == {1, 2}

PayloadTables == {"user_images", "user_audio"}

\* JSON null: canvasJSON: null of GET /api/canvas, a body without canvasJSON
Null == [present |-> FALSE, json |-> <<>>]

\* no row of a payload table
NoRow == [id |-> 0, user_id |-> 0]

\* no request answered yet
NoResponse ==
  [method |-> "", path |-> "", userId |-> 0, id |-> 0, status |-> 0,
   body |-> Null, row |-> NoRow]

\* no file chosen or pasted yet, the tables as db.exec creates them, the
\* username page with its useState initial values
RestIdle ==
  /\ userImages = <<>>
  /\ ingests = <<>>
  /\ imageStore = {}
  /\ canvases = {}
  /\ user_images = {} /\ user_audio = {}
  /\ lastRowid = [t \in PayloadTables |-> 0]
  /\ response = NoResponse
  /\ lastPut = [a \in Accounts |-> Null]
  /\ username = <<>>
  /\ status = [checking |-> FALSE, available |-> "null"]
  /\ debounceRef = [pending |-> FALSE, trimmed |-> <<>>]
  /\ checks = <<>>
  /\ statusOf = <<>>

(***************************************************************************)
(* The engine from a first visit: nothing stored yet.                      *)
(***************************************************************************)
InitClient ==
  /\ mounted = TRUE /\ destroyed = FALSE
  /\ objects = <<PageRect>>
  /\ nextId = 2
  /\ activeObject = 0 /\ activeTextbox = 0
  /\ lastSelRef = [textbox |-> 0, start |-> 0, end |-> 0]
  /\ contextMenu = 0
  /\ sessionAudios = <<>>
  /\ saveStatus = ""
  /\ saveTimerRef = 0 /\ timers = {}
  /\ puts = {} /\ putReplies = {}
  /\ sinceDirty = SaveDelay
  /\ dirtyDoc = <<PageRect>>
  /\ burstPuts = 0
  /\ sent = <<>> /\ handled = <<>>
  /\ lastReply = [seq |-> 0, ok |-> TRUE, thrown |-> FALSE, shown |-> ""]
  /\ edits = 0

Init ==
  /\ InitClient
  /\ RestIdle
  /\ load = LoadIdle
  /\ session = TRUE
  /\ store = NoDoc
  /\ audioStore = {}

\* pointer positions of a drop
Coords == {20, 200}

ResizeWidths == {10}

\* displacements of the top fabric's transform leaves during a resize
TopDrifts == {0, 7}

\* the editor: the gestures, the clock, the debounced save up to the request it
\* issues, and the teardown of the page
EditorNext ==
  \/ AddTextBox
  \/ AddImage
  \/ \E id \in Ids(objects), x \in Coords : MoveObject(id, x, x)
  \/ \E id \in Ids(objects), w \in ResizeWidths, d \in TopDrifts : ResizeTextbox(id, w, d)
  \/ TypeChar
  \/ RemoveActive
  \/ \E id \in Ids(objects) : Select(id)
  \/ Deselect
  \/ \E id \in Ids(objects), r \in Ranges : EnterEditing(id, r)
  \/ \E r \in Ranges : SelectRange(r)
  \/ \E styles \in StyleDeltas : ApplyStyle(styles)
  \/ \E align \in Aligns : SetAlign(align)
  \/ \E id \in Ids(objects) : RightClick(id)
  \/ \E action \in ZActions : ZOrder(action)
  \/ Tick
  \/ SaveTimerFire
  \/ Unmount
  \/ CanvasDestroy

\* the editor, with no request answered
SpecEditor == Init /\ [][EditorNext]_vars

\* the requests in flight and the server, under the gestures that need no
\* selection made with the pointer first
NetNext ==
  \/ AddTextBox
  \/ AddImage
  \/ \E id \in Ids(objects), x \in Coords : MoveObject(id, x, x)
  \/ \E id \in Ids(objects), w \in ResizeWidths, d \in TopDrifts : ResizeTextbox(id, w, d)
  \/ RemoveActive
  \/ \E styles \in StyleDeltas : ApplyStyle(styles)
  \/ \E align \in Aligns : SetAlign(align)
  \/ Tick
  \/ SaveTimerFire
  \/ SaveResolved
  \/ SaveRejected
  \/ StatusResetFire
  \/ ServerPutCanvas
  \/ ServerLogout
  \/ Unmount
  \/ CanvasDestroy

SpecNet == Init /\ [][NetNext]_vars

(***************************************************************************)
(* Properties of the debounced save, over SpecEditor.                      *)
(***************************************************************************)
\* the debounce timers pending
SaveTimers == {t \in timers : t.kind = "save"}

\* the request issued last
LastSent == sent[Len(sent)]

\* the elements of a canvas other than the page background
Elements(objs) == SelectSeq(objs, LAMBDA o : ~o.isPageBg)

\* C1: a burst of dirty events, each less than the quiet period after the one
\* before, makes saveCanvas issue one PUT and no more, and the blob of that PUT
\* is the serialization of the document as the last event of the burst left it
C1_OneSavePerBurst ==
  /\ burstPuts <= 1
  /\ burstPuts = 1 => LastSent.blob = SerializeCanvas(dirtyDoc)

\* the page still open, the burst's PUT issued, its blob not the document of
\* the burst's last dirty event
C1_BlobNotOfLastEvent ==
  /\ mounted
  /\ burstPuts = 1
  /\ LastSent.blob # SerializeCanvas(dirtyDoc)

\* C2: a dirty event cancels the pending debounce timer and starts a full quiet
\* period: never two save timers pending; within the quiet period the one timer
\* is the one saveTimerRef holds and has the whole rest of the period to run;
\* and no PUT was issued less than the quiet period after the latest dirty event
C2_DebounceRestarts ==
  /\ Cardinality(SaveTimers) <= 1
  /\ sinceDirty < SaveDelay =>
       \E t \in SaveTimers : t.id = saveTimerRef /\ t.left = SaveDelay - sinceDirty
  /\ \A i \in 1..Len(sent) : sent[i].age >= SaveDelay

\* a second dirty event came before the timer of the first one fired: one
\* timer is pending, with a whole quiet period to run
C2_SecondEventRestarted ==
  /\ sent = <<>>
  /\ Len(dirtyDoc) = 3
  /\ sinceDirty = 0
  /\ \E t \in SaveTimers : t.left = SaveDelay

\* C4: every operation on the open page that changes the state of an element
\* as the store would hold it (add, remove, move, resize, text edit, style,
\* alignment, z-order) schedules a debounced save
C4_ChangeSchedulesSave ==
  [][(mounted' /\ SerializeCanvas(objects') # SerializeCanvas(objects)) =>
       /\ sinceDirty' = 0
       /\ \E t \in timers' : /\ t.kind = "save" /\ t.id = saveTimerRef'
                             /\ t.left = SaveDelay]_vars

\* the page open and at rest, no save pending, and the document not the one
\* last sent
C4_ChangeNeverSent ==
  /\ mounted
  /\ SaveTimers = {}
  /\ sent # <<>>
  /\ Len(sent) < MaxPuts
  /\ LastSent.blob # SerializeCanvas(objects)

\* C6: no PUT issued at or after the teardown of the page carries the state
\* that was pending when the page was torn down
C6_TeardownDoesNotFlush ==
  \A i \in 1..Len(sent) :
    ~sent[i].mounted => sent[i].blob # SerializeCanvas(dirtyDoc)

\* the page torn down, and then a PUT issued with the pending document
C6_FlushedAfterTeardown ==
  /\ ~mounted
  /\ sent # <<>>
  /\ ~LastSent.mounted
  /\ LastSent.blob = SerializeCanvas(dirtyDoc)

\* C8: the blob of every PUT holds no page background, and holds every other
\* element of the canvas at the time it is sent, in the canvas's z-order
C8_BlobIsDocument ==
  [][Len(sent') > Len(sent) =>
       LET blob == sent'[Len(sent')].blob
           live == Elements(objects)
       IN /\ \A i \in 1..Len(blob) : ~blob[i].isPageBg
          /\ Len(blob) = Len(live)
          /\ \A i \in 1..Len(live) : blob[i] = ToObject(live[i])]_vars

\* a PUT was issued from a canvas of the page background and two elements of
\* different kinds, and holds the two in their z-order
C8_TwoElementsSent ==
  /\ sent # <<>>
  /\ LastSent.mounted
  /\ Len(objects) = 3 /\ objects[1].isPageBg
  /\ objects[2].type # objects[3].type
  /\ LastSent.blob = <<ToObject(objects[2]), ToObject(objects[3])>>

(***************************************************************************)
(* Properties of the requests and the store, over SpecNet.                 *)
(***************************************************************************)
\* C3: a save that failed, its fetch having thrown or the server having
\* answered with a status that is no success, sets the status 'Save failed'
\* and not 'Saved'
C3_FailureShown ==
  (lastReply.seq # 0 /\ ~lastReply.ok) => lastReply.shown = "Save failed"

\* the server refused the PUT and the open page shows 'Saved'
C3_RefusedShownSaved ==
  /\ mounted
  /\ lastReply.seq # 0 /\ ~lastReply.ok /\ ~lastReply.thrown
  /\ saveStatus = "Saved"
  /\ store = NoDoc

\* C5: the store holds the blob of the PUT the server processed last, in
\* whatever order the PUTs were issued
C5_LastArrivalWins ==
  handled # <<>> => store = Doc(sent[handled[Len(handled)]].blob)

\* two PUTs with different blobs were in flight together, the second reached
\* the server first, and the store holds the older document of the first
C5_OlderOverwrote ==
  /\ handled = <<2, 1>>
  /\ sent[1].blob # sent[2].blob
  /\ store = Doc(sent[1].blob)

(***************************************************************************)
(* A later visit: the page mounts over a document an earlier visit stored. *)
(***************************************************************************)
\* the elements of the earlier visit, as the add operations and a resize left
\* them: a text box, a resized text box, an image, an audio player added from
\* the toolbar and one dropped at a pointer position
ToolbarTextbox == NewTextbox(2, PAGE_MARGIN + 100, PAGE_MARGIN + 30)

ResizedTextbox ==
  [NewTextbox(3, PAGE_MARGIN + 100, 200) EXCEPT !.width = 260, !.lockedWidth = 260]

ToolbarImage == NewImage(4, -1, -1)

ToolbarAudio == NewAudioRect(5, 1, -1, -1)

DroppedAudio == NewAudioRect(6, 2, 200, 20)

StoredElements ==
  {ToolbarTextbox, ResizedTextbox, ToolbarImage, ToolbarAudio, DroppedAudio}

\* the documents of at most MaxStored of these elements, in any z-order
StoredDocs ==
  {d \in UNION {[1..n -> StoredElements] : n \in 0..MaxStored} :
     \A i, j \in DOMAIN d : i # j => d[i] # d[j]}

\* a blob as a client listing selectable and evented among the serialized
\* properties writes it: the one shape in which the load keeps an audio rect
WithInteractivity(blob) ==
  [i \in 1..Len(blob) |-> [blob[i] EXCEPT !.selectable = TRUE, !.evented = TRUE]]

\* the blobs the store may hold for the owner
StoredBlobs ==
  {SerializeCanvas(<<PageRect>> \o d) : d \in StoredDocs}
    \cup {WithInteractivity(SerializeCanvas(<<PageRect>> \o d)) : d \in StoredDocs}

\* the audio payloads of the earlier visit
AudioIds == {1, 2}

InitLoad ==
  /\ InitClient
  /\ RestIdle
  /\ load = [pc |-> "fetching", ok |-> FALSE, doc |-> NoDoc, audios |-> <<>>]
  /\ session = TRUE
  /\ store \in {NoDoc} \cup {Doc(b) : b \in StoredBlobs}
  /\ audioStore \in SUBSET AudioIds

\* loadCanvas of the mounting page, the server answering it
LoadNext ==
  \/ ServerGetCanvas
  \/ LoadFailed
  \/ LoadResponse
  \/ \E k \in 1..Len(load.audios) : ServerGetAudio(k)
  \/ \E k \in 1..Len(load.audios) : AudioFetchFailed(k)
  \/ LoadAudiosDone
  \/ ServerLogout

SpecLoad == InitLoad /\ [][LoadNext]_vars

(***************************************************************************)
(* Properties of the load, over SpecLoad.                                  *)
(***************************************************************************)
\* loadCanvas ran to its end on a stored document
LoadCompleted == load.pc = "done" /\ load.ok

\* the blob is one saveCanvas wrote
Native(blob) == \A j \in 1..Len(blob) : ~blob[j].selectable /\ ~blob[j].evented

\* element o has the variant, the position and the locked width of element d
SameElement(o, d) ==
  /\ o.type = d.type /\ o.isAudio = d.isAudio
  /\ o.left = d.left /\ o.top = d.top
  /\ d.type = "textbox" => o.lockedWidth = d.lockedWidth

\* document d holds one TextBox, one Image and one AudioAnchor
OneOfEach(d) ==
  /\ Len(d) = 3
  /\ \E i \in 1..3 : d[i].type = "textbox"
  /\ \E i \in 1..3 : d[i].type = "image"
  /\ \E i \in 1..3 : d[i].isAudio

\* C7: loading the blob saveCanvas writes for a document of one TextBox, one
\* Image and one AudioAnchor gives a document of as many elements, with the
\* same variants, positions and TextBox locked widths, the page background
\* left out of the comparison
C7_RoundTrip ==
  \A d \in StoredDocs :
    (/\ LoadCompleted
     /\ OneOfEach(d)
     /\ store = Doc(SerializeCanvas(<<PageRect>> \o d))) =>
      LET live == Elements(objects)
      IN /\ Len(live) = Len(d)
         /\ \A i \in 1..Len(d) : SameElement(live[i], d[i])

\* the document of a text box, an image and an audio player, all added from
\* the toolbar, comes back as two elements, none of them the audio player
C7_AudioLost ==
  /\ LoadCompleted
  /\ store = Doc(SerializeCanvas(<<PageRect, ToolbarTextbox, ToolbarImage, ToolbarAudio>>))
  /\ Len(Elements(objects)) = 2
  /\ \A i \in 1..Len(objects) : ~objects[i].isAudio

\* C9: once loadCanvas has completed on a stored blob, every TextBox of the
\* canvas has the width-lock override with a locked width the blob stored for
\* a TextBox, and every AudioAnchor of the blob is on the canvas with a
\* playback control registered under its overlay identifier
C9_LoadReattaches ==
  LoadCompleted =>
    /\ \A i \in 1..Len(objects) :
         objects[i].type = "textbox" =>
           /\ objects[i].patched
           /\ \E j \in 1..Len(store.json) :
                /\ ToLowerCase(store.json[j].type) = "textbox"
                /\ store.json[j].lockedWidth = objects[i].lockedWidth
    /\ \A j \in 1..Len(store.json) :
         store.json[j].isAudio =>
           /\ \E i \in 1..Len(objects) :
                objects[i].isAudio /\ objects[i].overlayId = store.json[j].overlayId
           /\ \E a \in 1..Len(sessionAudios) :
                sessionAudios[a].overlayId = store.json[j].overlayId

\* a blob saveCanvas wrote holds an AudioAnchor whose payload the server still
\* has, the session is valid, the load has completed, and the canvas has no
\* AudioAnchor and the page no playback control
C9_AudioNotRestored ==
  /\ LoadCompleted /\ session
  /\ Native(store.json)
  /\ \E j \in 1..Len(store.json) :
       store.json[j].isAudio /\ store.json[j].audioId \in audioStore
  /\ \A i \in 1..Len(objects) : ~objects[i].isAudio
  /\ sessionAudios = <<>>

\* blob element b references a payload the server cannot resolve
Unresolvable(b) == b.isAudio /\ b.audioId \notin audioStore

\* blob element b is on the canvas again
Restored(b) ==
  \E i \in 1..Len(objects) :
    /\ objects[i].type = ToLowerCase(b.type)
    /\ objects[i].isAudio = b.isAudio /\ objects[i].overlayId = b.overlayId
    /\ objects[i].text = b.text /\ objects[i].width = b.width

\* C10: when the loaded blob references a payload id the server cannot
\* resolve, the element of that id is absent from the restored canvas and
\* every other element of the blob is restored
C10_UnresolvableOmitted ==
  (LoadCompleted /\ session) =>
    \A j \in 1..Len(store.json) :
      Unresolvable(store.json[j]) =>
        /\ ~Restored(store.json[j])
        /\ \A k \in 1..Len(store.json) :
             ~Unresolvable(store.json[k]) => Restored(store.json[k])

\* a blob saveCanvas wrote holds an AudioAnchor of a payload the server has
\* lost and one of a payload it has, and the load restores neither
C10_ResolvableLostToo ==
  /\ LoadCompleted /\ session
  /\ Native(store.json)
  /\ \E j, k \in 1..Len(store.json) :
       /\ Unresolvable(store.json[j])
       /\ store.json[k].isAudio /\ store.json[k].audioId \in audioStore
       /\ ~Restored(store.json[k])

(***************************************************************************)
(* The pointer on the grid: elements dropped anywhere, and dragged.        *)
(***************************************************************************)
\* the pointer positions of a drop reach from -MaxRaw to MaxRaw on each axis
MaxRaw == 40

RawCoords == (0 - MaxRaw)..MaxRaw

\* the page of a first visit after an image was dropped at the pointer position
\* (x, y): handleDrop, addImageToCanvas(imageData, x, y), object:added
InitSnap ==
  \E x, y \in RawCoords :
    LET objs == <<PageRect, NewImage(2, x, y)>>
    IN /\ mounted = TRUE /\ destroyed = FALSE
       /\ objects = objs
       /\ nextId = 3
       /\ activeObject = 2 /\ activeTextbox = 0
       /\ lastSelRef = [textbox |-> 0, start |-> 0, end |-> 0]
       /\ contextMenu = 0
       /\ sessionAudios = <<>>
       /\ saveStatus = "Saving..."
       /\ saveTimerRef = 1
       /\ timers = SetTimeout({}, 1, "save", SaveDelay)
       /\ puts = {} /\ putReplies = {}
       /\ sinceDirty = 0
       /\ dirtyDoc = objs
       /\ burstPuts = 0
       /\ sent = <<>> /\ handled = <<>>
       /\ lastReply = [seq |-> 0, ok |-> TRUE, thrown |-> FALSE, shown |-> ""]
       /\ edits = 1
       /\ load = LoadIdle
       /\ session = TRUE
       /\ store = NoDoc
       /\ audioStore = {}
       /\ RestIdle

\* the drag of the image
SnapNext == \E id \in Ids(objects) : MovingEvent(id)

SpecSnap == InitSnap /\ [][SnapNext]_vars

(***************************************************************************)
(* Properties of the grid, over SpecSnap.                                  *)
(***************************************************************************)
Abs(n) == IF n < 0 THEN 0 - n ELSE n

\* the grid lines about the pointer positions
GridLines == {k * GRID_SIZE : k \in (0 - MaxRaw - 2)..(MaxRaw + 2)}

\* m is a grid line, and no grid line is nearer to v
NearestMultiple(m, v) ==
  /\ m \in GridLines
  /\ \A g \in GridLines : Abs(m - v) <= Abs(g - v)

\* the object of identity id after the step
ObjAfter(id) == objects'[Idx(objects', id)]

\* C14: a move event of an element other than the page background replaces
\* its x by the multiple of 30 nearest to x and its y by the multiple of 30
\* nearest to y, each whatever the other is
C14_MoveSnapsBothAxes ==
  [][\A id \in Ids(objects) :
       (MovingEvent(id) /\ ~Obj(id).isPageBg) =>
         /\ NearestMultiple(ObjAfter(id).left, Obj(id).left)
         /\ NearestMultiple(ObjAfter(id).top, Obj(id).top)]_vars

\* an image dropped at (20, -20) was moved: it is at (30, -30)
C14_MovedOntoGrid ==
  /\ Len(objects) = 2 /\ Len(dirtyDoc) = 2
  /\ dirtyDoc[2].left = 20 /\ dirtyDoc[2].top = 0 - 20
  /\ objects[2].left = GRID_SIZE /\ objects[2].top = 0 - GRID_SIZE

\* C15: snapping is idempotent: at the position a move event left an element,
\* the handler of the move event changes nothing
C15_SnapIdempotent ==
  [][\A id \in Ids(objects) :
       MovingEvent(id) =>
         /\ Snap(ObjAfter(id).left) = ObjAfter(id).left
         /\ Snap(ObjAfter(id).top) = ObjAfter(id).top
         /\ ObjectMoving(ObjAfter(id)) = ObjAfter(id)]_vars

\* an image dropped off the grid on both axes was moved, and snapping its
\* position again gives its position
C15_SnappedTwice ==
  /\ Len(objects) = 2 /\ Len(dirtyDoc) = 2
  /\ dirtyDoc[2].left % GRID_SIZE # 0 /\ dirtyDoc[2].top % GRID_SIZE # 0
  /\ objects[2].left # dirtyDoc[2].left /\ objects[2].top # dirtyDoc[2].top
  /\ Snap(objects[2].left) = objects[2].left
  /\ Snap(objects[2].top) = objects[2].top

(***************************************************************************)
(* Placing: every operation that creates or places an element.             *)
(***************************************************************************)
\* the documents of an earlier visit
PlaceDocs == {<<ToolbarTextbox>>, <<ToolbarTextbox, ToolbarImage>>}

InitPlace ==
  /\ InitClient
  /\ RestIdle
  /\ load = [pc |-> "fetching", ok |-> FALSE, doc |-> NoDoc, audios |-> <<>>]
  /\ session = TRUE
  /\ store \in {NoDoc} \cup {Doc(SerializeCanvas(<<PageRect>> \o d)) : d \in PlaceDocs}
  /\ audioStore = {}

PlaceNext ==
  \/ AddTextBox
  \/ AddImage
  \/ AddAudio
  \/ \E x, y \in Coords : DropTextBox(x, y)
  \/ \E x, y \in Coords : DropImage(x, y)
  \/ \E id \in Ids(objects), x, y \in Coords : MoveObject(id, x, y)
  \/ \E id \in Ids(objects) : Select(id)
  \/ RemoveActive
  \/ ServerGetCanvas
  \/ LoadResponse

SpecPlace == InitPlace /\ [][PlaceNext]_vars

\* C16: in every reachable state every element of the document, TextBox, Image
\* or AudioAnchor, is at a position whose x and y are multiples of the grid
\* step, whichever operation created it or placed it last
C16_EveryElementOnGrid ==
  \A i \in 1..Len(objects) :
    ~objects[i].isPageBg =>
      /\ objects[i].left % GRID_SIZE = 0
      /\ objects[i].top % GRID_SIZE = 0

\* the one element of a first visit is an image added from the toolbar, at
\* (100, 100)
C16_ImageOffGrid ==
  /\ store = NoDoc /\ edits = 1
  /\ Len(objects) = 2
  /\ objects[2].type = "image"
  /\ objects[2].left = ImageDefaultPos /\ objects[2].top = ImageDefaultPos
  /\ ImageDefaultPos % GRID_SIZE # 0

(***************************************************************************)
(* Editing: the gestures on the text boxes of a stored document, with no   *)
(* time passing.                                                           *)
(***************************************************************************)
\* a text box an earlier visit resized down to the floor
NarrowTextbox ==
  [NewTextbox(2, PAGE_MARGIN + 100, PAGE_MARGIN + 30)
     EXCEPT !.width = MinWidth, !.lockedWidth = MinWidth]

\* the documents of the earlier visit
EditDocs == {<<ToolbarTextbox>>, <<NarrowTextbox>>}

EditBlobs == {SerializeCanvas(<<PageRect>> \o d) : d \in EditDocs}

InitEdit ==
  /\ InitClient
  /\ RestIdle
  /\ load = [pc |-> "fetching", ok |-> FALSE, doc |-> NoDoc, audios |-> <<>>]
  /\ session = TRUE
  /\ store \in {Doc(b) : b \in EditBlobs}
  /\ audioStore = {}

\* the selection ranges, the style deltas and the widths of the editing gestures
EditRanges == Ranges \cup {<<3, 4>>}

EditDeltas ==
  StyleDeltas \cup {[fontWeight |-> "", fontStyle |-> "", fontSize |-> LargeFontSize]}

EditWidths == ResizeWidths \cup {150}

EditNext ==
  \/ ServerGetCanvas
  \/ LoadResponse
  \/ \E id \in Ids(objects), x \in Coords : MoveObject(id, x, x)
  \/ \E id \in Ids(objects), w \in EditWidths, d \in TopDrifts : ResizeTextbox(id, w, d)
  \/ TypeChar
  \/ RemoveActive
  \/ \E id \in Ids(objects) : Select(id)
  \/ Deselect
  \/ \E id \in Ids(objects), r \in EditRanges : EnterEditing(id, r)
  \/ \E r \in EditRanges : SelectRange(r)
  \/ \E styles \in EditDeltas : ApplyStyle(styles)
  \/ \E styles \in EditDeltas, cleared \in BOOLEAN : ToolbarSelect(styles, cleared)
  \/ \E align \in Aligns : SetAlign(align)

SpecEdit == InitEdit /\ [][EditNext]_vars

(***************************************************************************)
(* Properties of the locked width, over SpecEdit.                          *)
(***************************************************************************)
\* C11: for a TextBox being edited with locked width W, every character
\* inserted, with the re-layout that follows it, leaves the wrap width of the
\* box and its locked width equal to W
C11_TypingKeepsWidth ==
  [][TypeChar =>
       LET W == Obj(activeObject).lockedWidth
       IN /\ ObjAfter(activeObject).width = W
          /\ ObjAfter(activeObject).lockedWidth = W]_vars

\* a character was typed into a box locked at the floor whose widest grapheme
\* is wider than the floor, and the box is still as wide as the floor
C11_TypedInNarrowBox ==
  \E i \in 1..Len(objects) :
    /\ objects[i].isEditing /\ objects[i].textChanged
    /\ DynamicMinWidth(objects[i]) > MinWidth
    /\ objects[i].width = MinWidth /\ objects[i].lockedWidth = MinWidth

\* C12: the locked width of a TextBox changes in a resize gesture and in no
\* other operation
C12_OnlyResizeChangesLockedWidth ==
  [][\A id \in Ids(objects) \cap Ids(objects') :
       (/\ Obj(id).type = "textbox"
        /\ ObjAfter(id).lockedWidth # Obj(id).lockedWidth) =>
         \E w \in EditWidths, d \in TopDrifts : ResizeTextbox(id, w, d)]_vars

\* the one gesture since the load was a font size chosen for the selected
\* box, and the box's locked width is no longer the floor it was stored with
C12_StyleChangedLockedWidth ==
  /\ edits = 1 /\ LoadCompleted
  /\ store = Doc(SerializeCanvas(<<PageRect, NarrowTextbox>>))
  /\ Len(objects) = 2
  /\ objects[2].fontSize = LargeFontSize /\ ~objects[2].isEditing
  /\ objects[2].lockedWidth = GraphemeWidth(LargeFontSize)

\* C13 as stated: after a resize gesture to the width w the top of the box is
\* what it was, its width and its locked width are max(w, 20), and its scale
\* factors are 1
C13_ResizeSetsRequestedWidth ==
  [][\A id \in Ids(objects), w \in EditWidths, d \in TopDrifts :
       ResizeTextbox(id, w, d) =>
         /\ ObjAfter(id).top = Obj(id).top
         /\ ObjAfter(id).width = Max(w, MinWidth)
         /\ ObjAfter(id).lockedWidth = Max(w, MinWidth)
         /\ ObjAfter(id).scaleX = Unscaled /\ ObjAfter(id).scaleY = Unscaled]_vars

\* C13, amended: after a resize gesture to the width w the top of the box is
\* what it was, its width and its locked width are the largest of w, 20 and
\* the width of the box's widest grapheme, and its scale factors are 1
C13_ResizeAnchorsTop ==
  [][\A id \in Ids(objects), w \in EditWidths, d \in TopDrifts :
       ResizeTextbox(id, w, d) =>
         LET floor == Max(MinWidth, DynamicMinWidth(Obj(id)))
         IN /\ ObjAfter(id).top = Obj(id).top
            /\ ObjAfter(id).width = Max(w, floor)
            /\ ObjAfter(id).lockedWidth = Max(w, floor)
            /\ ObjAfter(id).scaleX = Unscaled /\ ObjAfter(id).scaleY = Unscaled]_vars

\* a box of the largest font size was resized below its widest grapheme, and
\* is as wide as that grapheme
C13_ResizedBelowGrapheme ==
  /\ edits = 2 /\ LoadCompleted
  /\ store = Doc(SerializeCanvas(<<PageRect, NarrowTextbox>>))
  /\ Len(objects) = 2 /\ activeObject = objects[2].id
  /\ dirtyDoc = objects
  /\ objects[2].fontSize = LargeFontSize
  /\ objects[2].width = GraphemeWidth(LargeFontSize)
  /\ objects[2].lockedWidth = GraphemeWidth(LargeFontSize)

(***************************************************************************)
(* Properties of the formatting commands, over SpecEdit.                   *)
(***************************************************************************)
\* delta names property k
Names(styles, k) == styles[k] # NoStyle[k]

\* the text box stored by the earlier visit is the one element of the page
OneStoredTextbox ==
  /\ LoadCompleted
  /\ store = Doc(SerializeCanvas(<<PageRect, ToolbarTextbox>>))
  /\ Len(objects) = 2 /\ objects[2].type = "textbox"

\* C17: a style delta applied to the range [start, end) gives every character
\* of the range the value the delta names for a property and leaves it the
\* value it had for a property the delta does not name; the characters
\* outside the range keep their styles
C17_DeltaMergedOnRange ==
  [][\A styles \in EditDeltas :
       (ApplyStyle(styles) /\ StyleTarget \in Ids(objects)) =>
         LET tb    == Obj(StyleTarget)
             r     == StyleRange(tb)
             after == ObjAfter(StyleTarget)
         IN r[1] # r[2] =>
              \A i \in 1..tb.text : \A k \in DOMAIN NoStyle :
                after.styles[i][k] =
                  IF r[1] < i /\ i <= r[2] /\ Names(styles, k)
                  THEN styles[k]
                  ELSE tb.styles[i][k]]_vars

\* bold on [2, 5) over italic on [3, 4): bold and italic on [3, 4), bold and
\* no slant on [2, 3) and [4, 5), nothing outside [2, 5)
C17_BoldOverItalic ==
  /\ OneStoredTextbox
  /\ objects[2].styles[4] = [NoStyle EXCEPT !.fontWeight = "bold", !.fontStyle = "italic"]
  /\ objects[2].styles[3] = [NoStyle EXCEPT !.fontWeight = "bold"]
  /\ objects[2].styles[5] = [NoStyle EXCEPT !.fontWeight = "bold"]
  /\ objects[2].styles[2] = NoStyle /\ objects[2].styles[6] = NoStyle

\* C18: a style applied while the target TextBox is not being edited is
\* applied to the element as a whole and to no range of its characters,
\* whatever selection the box had when it was edited before
C18_WholeBoxWhenNotEditing ==
  [][\A styles \in EditDeltas :
       (/\ ApplyStyle(styles)
        /\ StyleTarget \in Ids(objects)
        /\ ~Obj(StyleTarget).isEditing) =>
         LET tb    == Obj(StyleTarget)
             after == ObjAfter(StyleTarget)
         IN /\ after.styles = tb.styles
            /\ ~after.isEditing
            /\ \A k \in DOMAIN NoStyle :
                 after[k] = IF Names(styles, k) THEN styles[k] ELSE tb[k]]_vars

\* the one gesture since the load was Bold on the selected box, and the box
\* is in editing state with bold on [2, 5), the range of an edit that had
\* ended, and is not bold as a whole
C18_CachedRangeStyled ==
  /\ OneStoredTextbox /\ edits = 1
  /\ activeObject = objects[2].id
  /\ objects[2].isEditing
  /\ objects[2].fontWeight = "normal"
  /\ objects[2].styles[3].fontWeight = "bold"
  /\ objects[2].styles[5].fontWeight = "bold"
  /\ objects[2].styles[2] = NoStyle /\ objects[2].styles[6] = NoStyle

\* C19: when the toolbar takes the focus from a TextBox being edited with a
\* selection, the style command of that toolbar is applied to the range
\* cached last while the box was edited and to nothing else, and leaves the
\* box in editing state with that range selected
C19_CachedRangeRestored ==
  [][\A styles \in EditDeltas, cleared \in BOOLEAN :
       (/\ ToolbarSelect(styles, cleared)
        /\ Obj(activeTextbox).selectionStart # Obj(activeTextbox).selectionEnd) =>
         LET tb    == Obj(activeTextbox)
             after == ObjAfter(activeTextbox)
         IN /\ lastSelRef.textbox = activeTextbox
            /\ after.isEditing
            /\ after.selectionStart = lastSelRef.start
            /\ after.selectionEnd = lastSelRef.end
            /\ \A i \in 1..tb.text : \A k \in DOMAIN NoStyle :
                 after.styles[i][k] =
                   IF lastSelRef.start < i /\ i <= lastSelRef.end /\ Names(styles, k)
                   THEN styles[k]
                   ELSE tb.styles[i][k]
            /\ \A k \in DOMAIN NoStyle : after[k] = tb[k]]_vars

\* two choices in the toolbar's selects with [2, 5) selected: the first made
\* [2, 5) bold, the second made the whole box italic and left it out of
\* editing state
C19_SecondCommandWholeBox ==
  /\ OneStoredTextbox /\ edits = 2
  /\ activeObject = 0 /\ activeTextbox = objects[2].id
  /\ ~objects[2].isEditing
  /\ objects[2].fontStyle = "italic"
  /\ objects[2].styles[3] = [NoStyle EXCEPT !.fontWeight = "bold"]
  /\ objects[2].styles[5] = [NoStyle EXCEPT !.fontWeight = "bold"]
  /\ objects[2].styles[2] = NoStyle /\ objects[2].styles[6] = NoStyle

(***************************************************************************)
(* Properties of the remove request, over SpecEdit.                        *)
(***************************************************************************)
\* C20: a remove request made while the targeted element is being edited
\* removes no element; one that targets no element of the canvas leaves the
\* document as it is; any other removes the targeted element and no other
C20_RemoveRequest ==
  [][RemoveActive =>
       IF IsEditing(activeObject) \/ activeObject \notin Ids(objects)
       THEN objects' = objects
       ELSE /\ Ids(objects') = Ids(objects) \ {activeObject}
            /\ Len(objects') = Len(objects) - 1
            /\ \A i, j \in 1..Len(objects') :
                 i < j => Idx(objects, objects'[i].id) < Idx(objects, objects'[j].id)
            /\ \A id \in Ids(objects') : ObjAfter(id) = Obj(id)]_vars

\* the text box the load put on the page was removed, by the one gesture
\* since the page opened
C20_LoadedTextboxRemoved ==
  /\ LoadCompleted /\ store \in {Doc(b) : b \in EditBlobs}
  /\ edits = 1
  /\ objects = <<PageRect>>
  /\ activeObject = 0

(***************************************************************************)
(* Ingestion of files: handleUploadImage and the paste handler, then        *)
(* handleUploadAudio.  An item of ingests is one file: pc is where its read *)
(* and its upload stand, decode where the image element of                 *)
(* addImageToCanvas stands, res how the upload ended, id the row id the     *)
(* server answered, element the object the item put on the canvas (0 =     *)
(* none).                                                                  *)
(***************************************************************************)
NewIngest(kind) ==
  [kind |-> kind, pc |-> "reading", decode |-> "none", res |-> "none", id |-> 0,
   element |-> 0]

\* the row id insertImage gives the next payload of the owner
NewImageId ==
  IF imageStore = {} THEN 1
  ELSE (CHOOSE m \in imageStore : \A n \in imageStore : n <= m) + 1

\* a client that takes every response for a success
ImageResOkAny(item) == TRUE

\* if (!res.ok) throw new Error('Upload failed')
ImageResOk(item) == item.res = "ok"

\* a client that takes every response for a success
AudioResOkAny(item) == TRUE

\* if (!res.ok) throw new Error('Audio upload failed')
AudioResOk(item) == item.res = "ok"

\* handleUploadImage, or handlePaste with an image item: reader.readAsDataURL(file)
UploadImage ==
  /\ Gesture
  /\ ingests' = Append(ingests, NewIngest("image"))
  /\ UNCHANGED <<objects, nextId, selVars, saveVars, userImages, imageStore>>
  /\ UNCHANGED <<netVars, srvVars, loadVars, lifeVars, accountVars, usernameVars>>

\* handleUploadAudio: reader.readAsDataURL(file)
UploadAudio ==
  /\ Gesture
  /\ ingests' = Append(ingests, NewIngest("audio"))
  /\ UNCHANGED <<objects, nextId, selVars, saveVars, userImages, imageStore>>
  /\ UNCHANGED <<netVars, srvVars, loadVars, lifeVars, accountVars, usernameVars>>

\* reader.onload.  Image: addImageToCanvas(dataUrl) starts decoding the image
\* element, and uploadImageToServer(dataUrl) sends the POST once the thumbnail
\* is drawn.  Audio: the POST is sent.
ReaderOnload(k) ==
  /\ Pointer
  /\ k \in 1..Len(ingests) /\ ingests[k].pc = "reading"
  /\ ingests' = [ingests EXCEPT
                   ![k].pc = "posting",
                   ![k].decode = IF ingests[k].kind = "image" THEN "decoding" ELSE "none"]
  /\ UNCHANGED <<objects, nextId, selVars, saveVars, userImages, imageStore>>
  /\ UNCHANGED <<netVars, srvVars, loadVars, lifeVars, accountVars, usernameVars>>

\* the read fails: the reader has no onerror handler, nothing more runs
ReaderFails(k) ==
  /\ Pointer
  /\ k \in 1..Len(ingests) /\ ingests[k].pc = "reading"
  /\ ingests' = [ingests EXCEPT ![k].pc = "aborted"]
  /\ UNCHANGED <<objects, nextId, selVars, saveVars, userImages, imageStore>>
  /\ UNCHANGED <<netVars, srvVars, loadVars, lifeVars, accountVars, usernameVars>>

\* imgEl.onload of addImageToCanvas(dataUrl): the image is put on the canvas
ImageOnload(k) ==
  /\ Pointer
  /\ k \in 1..Len(ingests) /\ ingests[k].decode = "decoding"
  /\ LET img  == NewImage(nextId, -1, -1)
         objs == Append(ExitEditing(objects), img)
     IN /\ objects' = objs
        /\ saveCanvas(objs)
        /\ activeObject' = img.id
        /\ syncFmt(0)
        /\ ingests' = [ingests EXCEPT ![k].decode = "placed", ![k].element = img.id]
  /\ nextId' = nextId + 1
  /\ UNCHANGED <<lastSelRef, contextMenu, userImages, imageStore>>
  /\ UNCHANGED <<netVars, srvVars, loadVars, lifeVars, accountVars, usernameVars>>

\* app.post('/api/images'): requireAuth answers 401 without a session, else the
\* payload is stored and its row id answered
ServerPostImage(k) ==
  /\ k \in 1..Len(ingests)
  /\ ingests[k].kind = "image" /\ ingests[k].pc = "posting"
  /\ ingests' = [ingests EXCEPT
                   ![k].pc = "replied",
                   ![k].res = IF session THEN "ok" ELSE "refused",
                   ![k].id = IF session THEN NewImageId ELSE 0]
  /\ imageStore' = IF session THEN imageStore \cup {NewImageId} ELSE imageStore
  /\ UNCHANGED <<objects, nextId, selVars, saveVars, edits, userImages>>
  /\ UNCHANGED <<netVars, srvVars, loadVars, lifeVars, accountVars, usernameVars>>

\* uploadImageToServer after the await: a success is listed in the sidebar, and
\* any other response is thrown into the catch, which logs it
ImageUploadResolved(k) ==
  /\ Pointer
  /\ k \in 1..Len(ingests)
  /\ ingests[k].kind = "image" /\ ingests[k].pc = "replied"
  /\ IF ImageResOk(ingests[k])
     THEN /\ userImages' = <<ingests[k].id>> \o userImages
          /\ ingests' = [ingests EXCEPT ![k].pc = "listed"]
     ELSE /\ ingests' = [ingests EXCEPT ![k].pc = "logged"]
          /\ UNCHANGED userImages
  /\ UNCHANGED <<objects, nextId, selVars, saveVars, imageStore>>
  /\ UNCHANGED <<netVars, srvVars, loadVars, lifeVars, accountVars, usernameVars>>

\* fetch threw, the request or its response lost on the network: the catch of
\* uploadImageToServer or of handleUploadAudio logs it
UploadRejected(k) ==
  /\ Pointer
  /\ k \in 1..Len(ingests) /\ ingests[k].pc \in {"posting", "replied"}
  /\ ingests' = [ingests EXCEPT ![k].pc = "logged", ![k].res = "lost"]
  /\ UNCHANGED <<objects, nextId, selVars, saveVars, userImages, imageStore>>
  /\ UNCHANGED <<netVars, srvVars, loadVars, lifeVars, accountVars, usernameVars>>

\* app.post('/api/audio'): 401 without a session, else the payload is stored
ServerPostAudio(k) ==
  /\ k \in 1..Len(ingests)
  /\ ingests[k].kind = "audio" /\ ingests[k].pc = "posting"
  /\ ingests' = [ingests EXCEPT
                   ![k].pc = "replied",
                   ![k].res = IF session THEN "ok" ELSE "refused",
                   ![k].id = IF session THEN NewAudioId ELSE 0]
  /\ audioStore' = IF session THEN audioStore \cup {NewAudioId} ELSE audioStore
  /\ UNCHANGED <<objects, nextId, selVars, saveVars, edits, userImages, imageStore>>
  /\ UNCHANGED <<netVars, session, store, handled, loadVars, lifeVars>>
  /\ UNCHANGED <<accountVars, usernameVars>>

\* handleUploadAudio after the await: on a success addAudioToCanvas(data.id,
\* dataUrl) adds the rect and registers its playback control; any other
\* response is thrown into the catch, which logs it
AudioUploadResolved(k) ==
  /\ Pointer
  /\ k \in 1..Len(ingests)
  /\ ingests[k].kind = "audio" /\ ingests[k].pc = "replied"
  /\ IF AudioResOk(ingests[k])
     THEN LET rect == NewAudioRect(nextId, ingests[k].id, -1, -1)
              objs == Append(ExitEditing(objects), rect)
          IN /\ objects' = objs
             /\ saveCanvas(objs)
             /\ activeObject' = rect.id
             /\ syncFmt(0)
             /\ sessionAudios' = Append(sessionAudios,
                                        [overlayId |-> rect.overlayId,
                                         url |-> ingests[k].id])
             /\ ingests' = [ingests EXCEPT ![k].pc = "added", ![k].element = rect.id]
             /\ nextId' = nextId + 1
             /\ UNCHANGED <<lastSelRef, contextMenu>>
     ELSE /\ ingests' = [ingests EXCEPT ![k].pc = "logged"]
          /\ UNCHANGED <<objects, nextId, selVars, saveVars, sessionAudios>>
  /\ UNCHANGED <<userImages, imageStore, load>>
  /\ UNCHANGED <<netVars, srvVars, lifeVars, accountVars, usernameVars>>

\* the files of a first visit: chosen, read, uploaded, answered or lost
UploadNext ==
  \/ UploadImage
  \/ UploadAudio
  \/ \E k \in 1..Len(ingests) : ReaderOnload(k)
  \/ \E k \in 1..Len(ingests) : ReaderFails(k)
  \/ \E k \in 1..Len(ingests) : ImageOnload(k)
  \/ \E k \in 1..Len(ingests) : ServerPostImage(k)
  \/ \E k \in 1..Len(ingests) : ImageUploadResolved(k)
  \/ \E k \in 1..Len(ingests) : ServerPostAudio(k)
  \/ \E k \in 1..Len(ingests) : AudioUploadResolved(k)
  \/ \E k \in 1..Len(ingests) : UploadRejected(k)
  \/ ServerLogout

SpecUpload == Init /\ [][UploadNext]_vars

(***************************************************************************)
(* Properties of the ingestion, over SpecUpload.                           *)
(***************************************************************************)
\* the upload of item k ends in a failure in this step
UploadFails(k) ==
  \/ UploadRejected(k)
  \/ ingests[k].res = "refused" /\ (ImageUploadResolved(k) \/ AudioUploadResolved(k))

\* C21: when the upload of an image fails, by a network error or a response
\* that is no success, the document is as it was, with the image element if it
\* was placed already, the stored-image list has no new entry, and the error
\* ends in the catch of the upload
C21_FailedUploadKeepsImage ==
  [][\A k \in 1..Len(ingests) :
       (ingests[k].kind = "image" /\ UploadFails(k)) =>
         /\ objects' = objects
         /\ ingests[k].element # 0 => ingests[k].element \in Ids(objects')
         /\ userImages' = userImages
         /\ ingests'[k].pc = "logged"]_vars

\* the server refused the upload of an image that is on the canvas: it is
\* still there, and the sidebar lists nothing
C21_RefusedImageOnCanvas ==
  \E k \in 1..Len(ingests) :
    /\ ingests[k].kind = "image"
    /\ ingests[k].pc = "logged" /\ ingests[k].res = "refused"
    /\ ingests[k].decode = "placed"
    /\ ingests[k].element \in Ids(objects)
    /\ userImages = <<>>

\* the audio rects of the canvas
AudioAnchors(objs) == {i \in 1..Len(objs) : objs[i].isAudio}

\* C22: audio ingestion runs read, upload, add in this order for each item:
\* the upload is with the server only once the file was read, an AudioAnchor
\* and its playback control exist only for items whose upload succeeded, one
\* of each per such item, and a failing read or upload changes neither the
\* document nor the playback controls
C22_AudioPipelineSequential ==
  [][/\ \A k \in 1..Len(ingests) :
          ingests[k].kind = "audio" =>
            /\ ServerPostAudio(k) => ingests[k].pc = "posting"
            /\ AudioUploadResolved(k) /\ ingests'[k].element # 0 =>
                 ingests[k].res = "ok" /\ ingests[k].id \in audioStore
            /\ (ReaderFails(k) \/ UploadFails(k)) =>
                 /\ objects' = objects /\ sessionAudios' = sessionAudios
                 /\ ingests'[k].element = 0
     /\ LET added == {k \in 1..Len(ingests') :
                        ingests'[k].kind = "audio" /\ ingests'[k].element # 0}
        IN /\ \A k \in added : ingests'[k].res = "ok"
           /\ Cardinality(AudioAnchors(objects')) = Cardinality(added)
           /\ Len(sessionAudios') = Cardinality(added)]_vars

\* one audio file went through read, upload and add, and another was refused
\* by the server: one AudioAnchor, one playback control
C22_OneAddedOneRefused ==
  /\ Len(ingests) = 2
  /\ ingests[1].kind = "audio" /\ ingests[1].pc = "added"
  /\ ingests[2].kind = "audio" /\ ingests[2].pc = "logged" /\ ingests[2].res = "refused"
  /\ Cardinality(AudioAnchors(objects)) = 1
  /\ Len(sessionAudios) = 1

(***************************************************************************)
(* The persistence endpoints as every account sees them.  A request comes   *)
(* with the session of an account, or with none (userId 0).  A table is the *)
(* set of its rows.  canvas_json holds JSON.stringify of the body's         *)
(* canvasJSON, which JSON.parse gives back as it was sent.                  *)
(***************************************************************************)
\* payload rows inserted in one run, over the two tables
MaxPayloads == 2

Sessions == Accounts \cup {0}

\* the canvasJSON of a body: absent, a document of no elements, one of a text box
PutBodies ==
  {Null, [present |-> TRUE, json |-> <<>>],
   [present |-> TRUE, json |-> SerializeCanvas(<<PageRect, ToolbarTextbox>>)]}

\* if (!req.session.userId) return res.status(401)
requireAuth(userId) == userId # 0

\* SELECT canvas_json, updated_at FROM canvases WHERE user_id = ?
getCanvas(table, userId) == {row \in table : row.user_id = userId}

\* an INSERT with no ON CONFLICT clause, into a table without the UNIQUE
upsertCanvasInsert(table, userId, json) ==
  table \cup {[user_id |-> userId, canvas_json |-> json]}

\* INSERT INTO canvases ... ON CONFLICT(user_id) DO UPDATE SET canvas_json
upsertCanvasRun(table, userId, json) ==
  {row \in table : row.user_id # userId}
    \cup {[user_id |-> userId, canvas_json |-> json]}

\* a lookup by the id alone
getByIdOnly(table, id, userId) == {row \in table : row.id = id}

\* SELECT * FROM user_images / user_audio WHERE id = ? AND user_id = ?, and the
\* rows DELETE ... WHERE id = ? AND user_id = ? removes
getById(table, id, userId) == {row \in table : row.id = id /\ row.user_id = userId}

Table(t) == IF t = "user_images" THEN user_images ELSE user_audio

\* the payload tables with table t replaced by rows
SetTable(t, rows) ==
  /\ user_images' = IF t = "user_images" THEN rows ELSE user_images
  /\ user_audio' = IF t = "user_audio" THEN rows ELSE user_audio

Respond(method, path, userId, id, code, body, row) ==
  response' = [method |-> method, path |-> path, userId |-> userId, id |-> id,
               status |-> code, body |-> body, row |-> row]

\* app.put('/api/canvas')
PutCanvas(userId, body) ==
  /\ IF ~requireAuth(userId)
     THEN /\ Respond("PUT", "canvas", userId, 0, 401, Null, NoRow)
          /\ UNCHANGED <<canvases, lastPut>>
     ELSE IF ~body.present
     THEN /\ Respond("PUT", "canvas", userId, 0, 400, Null, NoRow)
          /\ UNCHANGED <<canvases, lastPut>>
     ELSE /\ canvases' = upsertCanvasRun(canvases, userId, body.json)
          /\ lastPut' = [lastPut EXCEPT ![userId] = body]
          /\ Respond("PUT", "canvas", userId, 0, 200, Null, NoRow)
  /\ UNCHANGED <<user_images, user_audio, lastRowid>>
  /\ UNCHANGED <<objects, nextId, selVars, saveVars, edits>>
  /\ UNCHANGED <<netVars, srvVars, loadVars, lifeVars, ingestVars, usernameVars>>

\* app.get('/api/canvas')
GetCanvas(userId) ==
  /\ IF ~requireAuth(userId)
     THEN Respond("GET", "canvas", userId, 0, 401, Null, NoRow)
     ELSE LET rows == getCanvas(canvases, userId)
          IN IF rows = {}
             THEN Respond("GET", "canvas", userId, 0, 200, Null, NoRow)
             ELSE Respond("GET", "canvas", userId, 0, 200,
                          [present |-> TRUE,
                           json |-> (CHOOSE row \in rows : TRUE).canvas_json],
                          NoRow)
  /\ UNCHANGED <<canvases, user_images, user_audio, lastRowid, lastPut>>
  /\ UNCHANGED <<objects, nextId, selVars, saveVars, edits>>
  /\ UNCHANGED <<netVars, srvVars, loadVars, lifeVars, ingestVars, usernameVars>>

\* app.post('/api/images'), app.post('/api/audio'): the body carries a payload
PostPayload(t, userId) ==
  /\ lastRowid["user_images"] + lastRowid["user_audio"] < MaxPayloads
  /\ IF ~requireAuth(userId)
     THEN /\ Respond("POST", t, userId, 0, 401, Null, NoRow)
          /\ UNCHANGED <<user_images, user_audio, lastRowid>>
     ELSE LET row == [id |-> lastRowid[t] + 1, user_id |-> userId]
          IN /\ SetTable(t, Table(t) \cup {row})
             /\ lastRowid' = [lastRowid EXCEPT ![t] = row.id]
             /\ Respond("POST", t, userId, row.id, 200, Null, row)
  /\ UNCHANGED <<canvases, lastPut>>
  /\ UNCHANGED <<objects, nextId, selVars, saveVars, edits>>
  /\ UNCHANGED <<netVars, srvVars, loadVars, lifeVars, ingestVars, usernameVars>>

\* app.get('/api/images/:id'), app.get('/api/audio/:id')
GetPayload(t, userId, id) ==
  /\ IF ~requireAuth(userId)
     THEN Respond("GET", t, userId, id, 401, Null, NoRow)
     ELSE LET rows == getById(Table(t), id, userId)
          IN IF rows = {}
             THEN Respond("GET", t, userId, id, 404, Null, NoRow)
             ELSE Respond("GET", t, userId, id, 200, Null, CHOOSE row \in rows : TRUE)
  /\ UNCHANGED <<canvases, user_images, user_audio, lastRowid, lastPut>>
  /\ UNCHANGED <<objects, nextId, selVars, saveVars, edits>>
  /\ UNCHANGED <<netVars, srvVars, loadVars, lifeVars, ingestVars, usernameVars>>

\* app.delete('/api/images/:id'), app.delete('/api/audio/:id')
DeletePayload(t, userId, id) ==
  /\ IF ~requireAuth(userId)
     THEN /\ Respond("DELETE", t, userId, id, 401, Null, NoRow)
          /\ UNCHANGED <<user_images, user_audio>>
     ELSE LET rows == getById(Table(t), id, userId)
          IN /\ SetTable(t, Table(t) \ rows)
             /\ IF rows = {}
                THEN Respond("DELETE", t, userId, id, 404, Null, NoRow)
                ELSE Respond("DELETE", t, userId, id, 200, Null, NoRow)
  /\ UNCHANGED <<canvases, lastRowid, lastPut>>
  /\ UNCHANGED <<objects, nextId, selVars, saveVars, edits>>
  /\ UNCHANGED <<netVars, srvVars, loadVars, lifeVars, ingestVars, usernameVars>>

\* the requests of the accounts, in any order
StoreNext ==
  \/ \E userId \in Sessions, body \in PutBodies : PutCanvas(userId, body)
  \/ \E userId \in Sessions : GetCanvas(userId)
  \/ \E t \in PayloadTables, userId \in Sessions : PostPayload(t, userId)
  \/ \E t \in PayloadTables, userId \in Sessions, id \in 1..MaxPayloads :
       GetPayload(t, userId, id)
  \/ \E t \in PayloadTables, userId \in Sessions, id \in 1..MaxPayloads :
       DeletePayload(t, userId, id)

\* the server from a first visit on
SpecStore == Init /\ [][StoreNext]_vars

(***************************************************************************)
(* Properties of the store, over SpecStore.                                *)
(***************************************************************************)
\* C23: whatever PUT /api/canvas requests the accounts made, the table holds at
\* most one row per account; GET /api/canvas answers an account the canvasJSON
\* of the PUT of that account stored last, or null if it never saved; and a
\* PUT of one account leaves the rows of every other account as they were
C23_OneDocumentPerOwner ==
  [][/\ \A a \in Accounts : Cardinality(getCanvas(canvases', a)) <= 1
     /\ \A a \in Accounts :
          GetCanvas(a) => response'.status = 200 /\ response'.body = lastPut[a]
     /\ \A a \in Accounts, body \in PutBodies :
          PutCanvas(a, body) =>
            \A o \in Accounts \ {a} :
              getCanvas(canvases', o) = getCanvas(canvases, o)]_vars

\* both accounts saved different documents, and account 1 was just answered
\* its own
C23_EachReadsItsOwn ==
  /\ Cardinality(canvases) = 2
  /\ lastPut[1].present /\ lastPut[2].present /\ lastPut[1] # lastPut[2]
  /\ response.method = "GET" /\ response.path = "canvas" /\ response.userId = 1
  /\ response.body = lastPut[1]

\* the rows of the payload tables
Payloads == <<user_images, user_audio>>

\* C24: a payload is read or deleted only by the account that uploaded it: a
\* GET or DELETE of a payload id by any other account is answered 404 and
\* leaves the payload tables as they were, a GET answers only a row of the
\* requesting account, a DELETE removes only rows of the requesting account,
\* and a request without a session is answered 401 with the tables as they were
C24_PayloadsOwnerOnly ==
  [][\A t \in PayloadTables, a \in Sessions, id \in 1..MaxPayloads :
       LET owned == \E row \in Table(t) : row.id = id /\ row.user_id = a
       IN /\ GetPayload(t, a, id) =>
               /\ Payloads' = Payloads
               /\ a = 0 => response'.status = 401
               /\ (a # 0 /\ ~owned) => response'.status = 404
               /\ response'.status = 200 =>
                    response'.row \in Table(t) /\ response'.row.user_id = a
                      /\ response'.row.id = id
          /\ DeletePayload(t, a, id) =>
               /\ a = 0 => response'.status = 401 /\ Payloads' = Payloads
               /\ (a # 0 /\ ~owned) => response'.status = 404 /\ Payloads' = Payloads
               /\ \A row \in Table(t) \ Table(t)' : row.user_id = a /\ row.id = id
               /\ Table(t)' \subseteq Table(t)]_vars

\* account 2 asked to delete a payload of account 1: 404, and the row is there
C24_ForeignDeleteRefused ==
  /\ response.method = "DELETE" /\ response.userId = 2 /\ response.status = 404
  /\ \E row \in Table(response.path) : row.id = response.id /\ row.user_id = 1

(***************************************************************************)
(* Properties of the z-order, over SpecEditor.                             *)
(***************************************************************************)
\* C25: the page background is the bottom-most object of the canvas: whatever
\* was added, removed or reordered, no element lies below it
C25_PageBgAtBack ==
  \A i \in 1..Len(objects) : objects[i].isPageBg => i = 1

\* a text box was sent to the back from the context menu, and lies below the
\* page background
C25_ElementBelowPage ==
  /\ mounted
  /\ Len(objects) = 2
  /\ objects[1].type = "textbox"
  /\ objects[2].isPageBg

(***************************************************************************)
(* Properties of the save status, over SpecNet.                            *)
(***************************************************************************)
\* C26: on the open page, whenever a debounced save timer is pending or a save
\* request is in flight the status shown is 'Saving...': the delayed reset
\* after an earlier save does not clear it, and the completion of an earlier
\* request does not replace it
C26_SavingWhilePending ==
  (mounted /\ (SaveTimers # {} \/ puts # {} \/ putReplies # {})) =>
    saveStatus = "Saving..."

\* the first save was answered and a later change is waiting for its timer,
\* when the reset of the first save clears the status
C26_ResetClearedPending ==
  /\ mounted
  /\ lastReply.seq = 1 /\ lastReply.shown = "Saved"
  /\ SaveTimers # {}
  /\ \A t \in timers : t.kind # "reset"
  /\ saveStatus = ""

(***************************************************************************)
(* Two text boxes: the style commands on a stored document of two.         *)
(***************************************************************************)
InitStyle ==
  /\ InitClient
  /\ RestIdle
  /\ load = [pc |-> "fetching", ok |-> FALSE, doc |-> NoDoc, audios |-> <<>>]
  /\ session = TRUE
  /\ store = Doc(SerializeCanvas(<<PageRect, ToolbarTextbox, ResizedTextbox>>))
  /\ audioStore = {}

StyleNext ==
  \/ ServerGetCanvas
  \/ LoadResponse
  \/ \E id \in Ids(objects) : Select(id)
  \/ Deselect
  \/ \E id \in Ids(objects), r \in Ranges : EnterEditing(id, r)
  \/ \E r \in Ranges : SelectRange(r)
  \/ \E styles \in StyleDeltas : ApplyStyle(styles)

SpecStyle == InitStyle /\ [][StyleNext]_vars

\* C27: a style command mutates the text box that is active on the canvas,
\* selected or being edited, and leaves every other object as it was: with B
\* selected and not edited after A was edited, it changes B and not A
C27_StyleHitsActiveTextbox ==
  [][\A styles \in StyleDeltas :
       (ApplyStyle(styles) /\ activeObject \in Ids(objects)
          /\ activeObject = activeTextbox) =>
         \A i \in 1..Len(objects) :
           IF objects[i].id = activeObject
           THEN objects'[i] = StyledTextbox(objects[i], styles)
           ELSE objects'[i] = objects[i]]_vars

\* the second text box is selected and not edited, as it was loaded, and the
\* style command made while it was selected has put the first one, edited
\* before, back into editing with its cached range in bold
C27_StyledTheOtherBox ==
  /\ Len(objects) = 3 /\ edits = 1
  /\ objects[2].isEditing
  /\ activeObject = objects[3].id
  /\ ~objects[3].isEditing
  /\ objects[3].fontWeight = "normal"
  /\ \A i \in 1..objects[3].text : objects[3].styles[i] = NoStyle
  /\ \E i \in 1..objects[2].text : objects[2].styles[i].fontWeight = "bold"

(***************************************************************************)
(* Properties of the playback controls, over SpecPlace.                    *)
(***************************************************************************)
\* C28: the playback controls registered and the AudioAnchors of the document
\* correspond one to one by overlay identifier: every AudioAnchor has exactly
\* one control, and every control is of an AudioAnchor of the document
C28_OverlaysMatchAnchors ==
  /\ \A i \in AudioAnchors(objects) :
       Cardinality({a \in 1..Len(sessionAudios) :
                      sessionAudios[a].overlayId = objects[i].overlayId}) = 1
  /\ \A a \in 1..Len(sessionAudios) :
       \E i \in AudioAnchors(objects) :
         objects[i].overlayId = sessionAudios[a].overlayId

\* an audio player was added on a first visit and removed with the Delete
\* key: its playback control is still registered
C28_ControlOfRemovedAnchor ==
  /\ store = NoDoc /\ load.pc = "fetching"
  /\ edits = 2
  /\ AudioAnchors(objects) = {}
  /\ Len(objects) = 1
  /\ Len(sessionAudios) = 1

(***************************************************************************)
(* Editing while loadCanvas of the mounting page awaits its response.      *)
(***************************************************************************)
\* the toolbar, the clock and the debounced save, the server answering the
\* load and the saves
RaceNext ==
  \/ AddTextBox
  \/ Tick
  \/ SaveTimerFire
  \/ ServerPutCanvas
  \/ SaveResolved
  \/ ServerGetCanvas
  \/ LoadResponse

SpecRace == InitPlace /\ [][RaceNext]_vars

\* the elements of a stored document, as serialized
ElementsOf(row) == {row.json[i] : i \in 1..Len(row.json)}

\* C29: editing while the load is in flight loses nothing: every element on
\* the canvas when the load completes is on it afterwards, and the server
\* handling a save request that was issued before the load completed leaves
\* every element of the stored document in the stored document
C29_LoadLosesNothing ==
  [][/\ LoadResponse =>
          \A id \in Ids(objects) : id \in Ids(objects')
     /\ \A s \in 1..Len(sent) :
          (handled' = Append(handled, s) /\ sent[s].loading /\ store.row) =>
             ElementsOf(store) \subseteq ElementsOf(store')]_vars

\* two text boxes were added while the load was in flight and the load has
\* put the stored document of one text box in their place; or a save issued
\* while the load was in flight has replaced the stored text box and image
\* by the one text box just added
C29_LostToTheLoad ==
  \/ /\ load.pc = "done" /\ store.row /\ Len(store.json) = 1
     /\ edits = 2 /\ sent = <<>>
     /\ Len(objects) = 2
  \/ /\ load.pc = "fetching"
     /\ handled = <<1>> /\ sent[1].loading
     /\ edits = 1
     /\ store = Doc(SerializeCanvas(<<PageRect, ToolbarTextbox>>))

(***************************************************************************)
(* UsernamePage: the debounced availability check.  A username is a        *)
(* sequence of characters; the reason shown under the input is left out.   *)
(***************************************************************************)
MaxChecks == 2

\* users.username of the accounts that have one
TakenNames == {<<"a", "b", "d">>}

\* e.target.value of the input, maxLength 20
Typed ==
  {<<>>, <<"a", "b">>, <<"a", "b", "c">>, <<"A", "b", "c">>, <<"a", "b", "d">>,
   <<"a", "b", "c", " ">>, <<"a", "b", "!">>}

\* String.prototype.toLowerCase
inputLowerCase(s) == [i \in 1..Len(s) |-> IF s[i] = "A" THEN "a" ELSE s[i]]

\* String.prototype.trim
trim(s) ==
  LET inked == {i \in 1..Len(s) : s[i] # " "}
  IN IF inked = {} THEN <<>>
     ELSE LET first == CHOOSE i \in inked : \A j \in inked : i <= j
              last  == CHOOSE i \in inked : \A j \in inked : j <= i
          IN SubSeq(s, first, last)

\* /^[a-zA-Z0-9_]+$/.test(name)
WordChars(name) ==
  /\ Len(name) > 0
  /\ \A i \in 1..Len(name) : name[i] \in {"a", "b", "c", "d", "A", "_"}

\* true when status.available is true and no check is pending (submitting is
\* false but during handleSubmit)
canSubmit == status.available = "true" /\ ~status.checking

\* onChange of the input, and the effect of [username]: the cleanup clears the
\* timeout; the local rules; else checking, and a timeout of 400 ms
TypeUsername(value) ==
  LET typed   == inputLowerCase(value)
      trimmed == trim(typed)
  IN /\ typed # username
     /\ username' = typed
     /\ statusOf' = trimmed
     /\ IF Len(trimmed) < 3
        THEN /\ status' = [checking |-> FALSE, available |-> "null"]
             /\ debounceRef' = [pending |-> FALSE, trimmed |-> <<>>]
        ELSE IF ~WordChars(trimmed) \/ Len(trimmed) > 20
        THEN /\ status' = [checking |-> FALSE, available |-> "false"]
             /\ debounceRef' = [pending |-> FALSE, trimmed |-> <<>>]
        ELSE /\ status' = [checking |-> TRUE, available |-> "null"]
             /\ debounceRef' = [pending |-> TRUE, trimmed |-> trimmed]
     /\ UNCHANGED checks
     /\ UNCHANGED <<objects, nextId, selVars, saveVars, edits, sessionAudios>>
     /\ UNCHANGED <<netVars, srvVars, loadVars, lifeVars, ingestVars, accountVars>>

\* the timeout fires: the callback up to the await, the fetch of
\* /api/username/check for the name the effect closed over
CheckTimerFire ==
  /\ debounceRef.pending
  /\ Len(checks) < MaxChecks
  /\ debounceRef' = [pending |-> FALSE, trimmed |-> <<>>]
  /\ checks' = Append(checks, [name |-> debounceRef.trimmed, phase |-> "sent",
                               available |-> "null"])
  /\ UNCHANGED <<username, status, statusOf>>
  /\ UNCHANGED <<objects, nextId, selVars, saveVars, edits, sessionAudios>>
  /\ UNCHANGED <<netVars, srvVars, loadVars, lifeVars, ingestVars, accountVars>>

\* app.get('/api/username/check'): 401 without a session, whose body has no
\* available; false for a name not of 3 to 20 word characters; else !existing
ServerCheck(i) ==
  /\ i \in 1..Len(checks) /\ checks[i].phase = "sent"
  /\ LET name == checks[i].name
         valid == WordChars(name) /\ Len(name) >= 3 /\ Len(name) <= 20
     IN checks' = [checks EXCEPT ![i].phase = "replied",
                     ![i].available =
                        IF ~session THEN "undefined"
                        ELSE IF ~valid THEN "false"
                        ELSE IF inputLowerCase(name) \in TakenNames THEN "false"
                        ELSE "true"]
  /\ UNCHANGED <<username, status, debounceRef, statusOf>>
  /\ UNCHANGED <<objects, nextId, selVars, saveVars, edits, sessionAudios>>
  /\ UNCHANGED <<netVars, srvVars, loadVars, lifeVars, ingestVars, accountVars>>

\* the callback after the awaits: setStatus from the body of the response
CheckResolved(i) ==
  /\ i \in 1..Len(checks) /\ checks[i].phase = "replied"
  /\ checks' = [checks EXCEPT ![i].phase = "done"]
  /\ status' = [checking |-> FALSE, available |-> checks[i].available]
  /\ statusOf' = checks[i].name
  /\ UNCHANGED <<username, debounceRef>>
  /\ UNCHANGED <<objects, nextId, selVars, saveVars, edits, sessionAudios>>
  /\ UNCHANGED <<netVars, srvVars, loadVars, lifeVars, ingestVars, accountVars>>

\* the catch: the request or its response was lost
CheckRejected(i) ==
  /\ i \in 1..Len(checks) /\ checks[i].phase \in {"sent", "replied"}
  /\ checks' = [checks EXCEPT ![i].phase = "done"]
  /\ status' = [checking |-> FALSE, available |-> "null"]
  /\ statusOf' = checks[i].name
  /\ UNCHANGED <<username, debounceRef>>
  /\ UNCHANGED <<objects, nextId, selVars, saveVars, edits, sessionAudios>>
  /\ UNCHANGED <<netVars, srvVars, loadVars, lifeVars, ingestVars, accountVars>>

UsernameNext ==
  \/ \E value \in Typed : TypeUsername(value)
  \/ CheckTimerFire
  \/ \E i \in 1..Len(checks) : ServerCheck(i)
  \/ \E i \in 1..Len(checks) : CheckResolved(i)
  \/ \E i \in 1..Len(checks) : CheckRejected(i)
  \/ ServerLogout

SpecUsername == Init /\ [][UsernameNext]_vars

\* C30: the availability status belongs to the username typed: the status was
\* last decided for the trimmed value of the input, by its local rules or by
\* the response of a check made for it, so the form can be submitted only on
\* a check of the username it would submit
C30_StatusOfTypedUsername == statusOf = trim(username)

\* the check of the free name abc was answered after the input had become the
\* taken name abd: the form can be submitted with abd
C30_SubmittableTakenName ==
  /\ canSubmit
  /\ trim(username) \in TakenNames
  /\ statusOf = <<"a", "b", "c">>
  /\ debounceRef.pending

====
